---- MODULE Spec2Model ----
(***************************************************************************)
(* Verification model of the careerly-server core: the quota engine        *)
(* (quotaService, usageRepository, subscriptionRepository) and the payment *)
(* reconciliation state machine (transactionService, transactionRepository,*)
(* midtrans.Client).                                                       *)
(*                                                                         *)
(* Every request runs on its own goroutine; a request is modelled as a     *)
(* process whose steps are its store statements and gateway calls, which   *)
(* are the only points where requests interleave.  Time is counted in days.*)
(***************************************************************************)
EXTENDS Integers, Sequences, FiniteSets, TLC

VARIABLES
    now,      \* time.Now(), in days since the start of month 0
    subs,     \* table subscriptions, in insertion (created_at) order; id = index
    txs,      \* table transactions, in insertion order; id = index
    usage,    \* table usage, in insertion order; id = index
    gateway,  \* the payment gateway's own status of every order it knows
    procs,    \* the requests in flight: operation, position, local variables
    log,      \* history: the completed CheckAndIncrementUsage calls
    hist      \* history: counters of gateway changes, deliveries, snapshots

vars == <<now, subs, txs, usage, gateway, procs, log, hist>>

-----------------------------------------------------------------------------
(* Bounds of the model.                                                     *)

NProcs == 2          \* request goroutines
MaxTicks == 2        \* the clock stops after this many half months
MaxCalls == 4        \* CheckAndIncrementUsage calls in a run
MaxTx == 1           \* CreateTransaction calls in a run
MaxGwChanges == 2    \* status changes at the gateway in a run
MaxSubs == 2         \* store and gateway calls fail only below this many subscriptions

Procs == 1..NProcs

-----------------------------------------------------------------------------
(* Go pointers (to int, string, uuid.UUID, time.Time): nil or one value.     *)

Nil == <<>>
Some(x) == <<x>>
Deref(p) == p[1]

-----------------------------------------------------------------------------
(* Data.                                                                    *)

Users == {"u1", "u2"}
PlanIds == {"basic", "pro"}
Features == {"resume", "ats_check", "interview"}

\* decimal.Decimal: whole units and hundredths.
Decimal(units, hundredths) == [units |-> units, hundredths |-> hundredths]
DecimalIsZero(d) == d.units = 0 /\ d.hundredths = 0
\* Decimal.IntPart: the digits after the point are cut off.
IntPart(d) == d.units

\* Plans an operator has created besides those of PlanIds: one priced with a
\* fraction (plan creation checks only the names), a free one, an inactive
\* one and a soft-deleted one.
OtherPlanIds == {"odd", "free", "retired", "deleted"}
CatalogIds == PlanIds \cup OtherPlanIds

\* The plan catalog (table plans).  Price in rupiah thousands.
PlanCatalog ==
    [p \in CatalogIds |->
        IF p = "basic"
        THEN [price |-> Decimal(50, 0), isActive |-> TRUE, deletedAt |-> Nil,
              durationDays |-> Nil,
              maxResumes |-> Some(2), maxATSChecks |-> Some(0),
              maxInterviews |-> Nil]
        ELSE [price |-> IF p = "free" THEN Decimal(0, 0)
                        ELSE IF p = "odd" THEN Decimal(99, 50)
                        ELSE Decimal(150, 0),
              isActive |-> (p # "retired"),
              deletedAt |-> IF p = "deleted" THEN Some(0) ELSE Nil,
              durationDays |-> Some(45),
              maxResumes |-> Some(1), maxATSChecks |-> Nil,
              maxInterviews |-> Some(0)]]

\* planRepository.FindByID: WHERE id = $1 AND deleted_at IS NULL; FALSE is
\* sql.ErrNoRows.
PlanFoundDeletedToo(id) == id \in DOMAIN PlanCatalog
PlanFound(id) == id \in DOMAIN PlanCatalog /\ PlanCatalog[id].deletedAt = Nil

DefaultDurationDays == 30
DaysPerMonth == 30
TickDays == DaysPerMonth \div 2
MaxNow == MaxTicks * TickDays

\* time.Date(now.Year(), now.Month(), 1, 0, 0, 0, 0, time.UTC): the first day
\* of the month of t.
PeriodMonth0(t) == 0
PeriodMonth(t) == (t \div DaysPerMonth) * DaysPerMonth

-----------------------------------------------------------------------------
(* subscriptionRepository                                                   *)

\* The rows FindActiveByUserID's WHERE clause selects at time t.
ActiveRowsNoEndDate(u, t) ==
    {i \in 1..Len(subs) : subs[i].user = u /\ subs[i].status = "active"}
ActiveRows(u, t) ==
    {i \in 1..Len(subs) :
        subs[i].user = u /\ subs[i].status = "active" /\ subs[i].endDate > t}

Max(S) == CHOOSE x \in S : \A y \in S : y <= x

\* ORDER BY s.created_at DESC LIMIT 1: the id of the newest selected row,
\* 0 for sql.ErrNoRows.
FindActiveByUserIDNoRows(u, t) == 0
FindActiveByUserID(u, t) ==
    IF ActiveRows(u, t) = {} THEN 0 ELSE Max(ActiveRows(u, t))

-----------------------------------------------------------------------------
(* usageRepository                                                          *)

\* GetCurrentMonthUsage: the row of (user, feature, month of time.Now()),
\* 0 for sql.ErrNoRows.
UsageRows(u, f, period) ==
    {i \in 1..Len(usage) :
        usage[i].user = u /\ usage[i].feature = f /\ usage[i].periodMonth = period}

GetCurrentMonthUsage(u, f, t) ==
    IF UsageRows(u, f, PeriodMonth(t)) = {} THEN 0
    ELSE CHOOSE i \in UsageRows(u, f, PeriodMonth(t)) : TRUE

\* INSERT ... ON CONFLICT (user_id, feature, period_month) DO NOTHING
InsertUsageOrReset(u, f, period) ==
    IF UsageRows(u, f, period) # {}
    THEN [i \in 1..Len(usage) |->
            IF i \in UsageRows(u, f, period)
            THEN [usage[i] EXCEPT !.count = 0] ELSE usage[i]]
    ELSE Append(usage, [user |-> u, feature |-> f, periodMonth |-> period,
                        count |-> 0])
InsertUsageNoConflict(u, f, period) ==
    Append(usage, [user |-> u, feature |-> f, periodMonth |-> period,
                   count |-> 0])
InsertUsage(u, f, period) ==
    IF UsageRows(u, f, period) # {} THEN usage
    ELSE Append(usage, [user |-> u, feature |-> f, periodMonth |-> period,
                        count |-> 0])

\* UPDATE usage SET count = count + 1 WHERE id = $1
IncrementCountOfUser(id) ==
    [i \in 1..Len(usage) |->
        IF usage[i].user = usage[id].user
        THEN [usage[i] EXCEPT !.count = @ + 1] ELSE usage[i]]
IncrementCountLost(id) == usage
IncrementCount(id) == [usage EXCEPT ![id].count = @ + 1]

-----------------------------------------------------------------------------
(* quotaService                                                             *)

\* The switch over the feature: the plan's limit, 0 when the pointer is nil.
LimitOf(plan, f) ==
    IF f = "resume" THEN PlanCatalog[plan].maxResumes
    ELSE IF f = "ats_check" THEN PlanCatalog[plan].maxATSChecks
    ELSE PlanCatalog[plan].maxInterviews

MaxAllowed(plan, f) ==
    IF LimitOf(plan, f) # Nil THEN Deref(LimitOf(plan, f)) ELSE 0

\* if maxAllowed > 0 && usage.Count >= maxAllowed
QuotaReachedOffByOne(maxAllowed, count) == maxAllowed > 0 /\ count > maxAllowed
QuotaReachedNoZeroTest(maxAllowed, count) == count >= maxAllowed
QuotaReached(maxAllowed, count) == maxAllowed > 0 /\ count >= maxAllowed

-----------------------------------------------------------------------------
(* Requests.  A request that is not running is Idle; a running one carries  *)
(* its operation, its position and the handler's local variables.  The      *)
(* fields hadActive, hadPlan, before and wrote are history: what held when  *)
(* the call started and whether the call wrote to the usage table.          *)

NoTx == [status |-> "none"]
NoPayload == <<>>

Idle ==
    [op |-> "idle", pc |-> "idle", user |-> "", feature |-> "", plan |-> "",
     order |-> <<>>, payload |-> NoPayload, tx |-> NoTx, txid |-> 0,
     sub |-> 0, period |-> 0, ms |-> 0, startDate |-> 0, usageId |-> 0,
     result |-> "",
     hadActive |-> FALSE, hadPlan |-> "", before |-> 0, wrote |-> FALSE, effects |-> 0,
     readStatus |-> "", args |-> <<>>, ret |-> "", quota |-> <<>>]

AllIdle == \A p \in Procs : procs[p].op = "idle"

Running(opname) == {p \in Procs : procs[p].op = opname /\ procs[p].pc # "done"}

\* The count of the row of (u, f, month of t), 0 when there is none.
MonthIndex(t) == t \div DaysPerMonth
CountOf(u, f, t) ==
    LET rows == {i \in 1..Len(usage) :
                    usage[i].user = u /\ usage[i].feature = f
                    /\ usage[i].periodMonth = MonthIndex(t) * DaysPerMonth}
    IN  IF rows = {} THEN 0 ELSE usage[CHOOSE i \in rows : TRUE].count

\* Whether u holds a subscription with stored status active and endDate > t,
\* and the plan of such a subscription ("" when there is none).
HasActive(u, t) ==
    \E i \in 1..Len(subs) :
        subs[i].user = u /\ subs[i].status = "active" /\ subs[i].endDate > t
ActivePlan(u, t) ==
    IF HasActive(u, t)
    THEN subs[CHOOSE i \in 1..Len(subs) :
                subs[i].user = u /\ subs[i].status = "active"
                /\ subs[i].endDate > t].plan
    ELSE ""

\* The log entry of a CheckAndIncrementUsage call of request r that ends with
\* result res, the usage table being u2 afterwards.
LogEntry(r, res, after) ==
    [user |-> r.user, feature |-> r.feature, month |-> MonthIndex(now),
     hadPlan |-> r.hadPlan, hadActive |-> r.hadActive, before |-> r.before,
     after |-> after, wrote |-> r.wrote, result |-> res]

-----------------------------------------------------------------------------
(* quotaService.CheckAndIncrementUsage(userID, feature)                     *)

\* The request arrives.
StartCheckAndIncrementUsage(p, u, f) ==
    /\ procs[p].op = "idle"
    /\ Len(log) + Cardinality(Running("CheckAndIncrementUsage")) < MaxCalls
    /\ procs' = [procs EXCEPT ![p] =
            [Idle EXCEPT !.op = "CheckAndIncrementUsage", !.pc = "find_active",
                         !.user = u, !.feature = f,
                         !.hadActive = HasActive(u, now),
                         !.hadPlan = ActivePlan(u, now),
                         !.before = CountOf(u, f, now)]]
    /\ UNCHANGED <<now, subs, txs, usage, gateway, log, hist>>

\* subscriptionRepo.FindActiveByUserID; sql.ErrNoRows -> ErrNoActiveSubscription.
\* Then periodMonth is computed from time.Now().
CaiFindActive(p) ==
    LET r == procs[p]
        s == FindActiveByUserID(r.user, now)
    IN  /\ r.op = "CheckAndIncrementUsage" /\ r.pc = "find_active"
        /\ IF s = 0
           THEN /\ procs' = [procs EXCEPT ![p].pc = "done",
                                          ![p].result = "no_active_subscription"]
                /\ log' = Append(log, LogEntry(r, "no_active_subscription",
                                               CountOf(r.user, r.feature, now)))
           ELSE /\ procs' = [procs EXCEPT ![p].pc = "get_usage",
                                          ![p].sub = s,
                                          ![p].plan = subs[s].plan,
                                          ![p].period = PeriodMonth(now)]
                /\ log' = log
        /\ UNCHANGED <<now, subs, txs, usage, gateway, hist>>

\* After FindOrCreate returned row id: the limit test of CheckAndIncrementUsage.
AfterFindOrCreate(p, id) ==
    LET r == procs[p]
    IN  IF QuotaReached(MaxAllowed(r.plan, r.feature), usage[id].count)
        THEN /\ procs' = [procs EXCEPT ![p].pc = "done", ![p].usageId = id,
                                       ![p].result = "quota_exceeded"]
             /\ log' = Append(log, LogEntry(r, "quota_exceeded",
                                            CountOf(r.user, r.feature, now)))
        ELSE /\ procs' = [procs EXCEPT ![p].pc = "increment", ![p].usageId = id]
             /\ log' = log

\* usageRepo.FindOrCreate, first GetCurrentMonthUsage.
CaiGetUsage(p) ==
    LET r == procs[p]
        id == GetCurrentMonthUsage(r.user, r.feature, now)
    IN  /\ r.op = "CheckAndIncrementUsage" /\ r.pc = "get_usage"
        /\ IF id = 0
           THEN procs' = [procs EXCEPT ![p].pc = "insert_usage"] /\ log' = log
           ELSE AfterFindOrCreate(p, id)
        /\ UNCHANGED <<now, subs, txs, usage, gateway, hist>>

\* usageRepo.FindOrCreate, the INSERT ... ON CONFLICT DO NOTHING.
CaiInsertUsage(p) ==
    LET r == procs[p]
    IN  /\ r.op = "CheckAndIncrementUsage" /\ r.pc = "insert_usage"
        /\ usage' = InsertUsage(r.user, r.feature, r.period)
        /\ procs' = [procs EXCEPT ![p].pc = "get_usage_again",
                                  ![p].wrote = (usage' # usage) \/ @]
        /\ UNCHANGED <<now, subs, txs, gateway, log, hist>>

\* usageRepo.FindOrCreate, the closing GetCurrentMonthUsage; its sql.ErrNoRows
\* is returned to the caller as it is.
CaiGetUsageAgain(p) ==
    LET r == procs[p]
        id == GetCurrentMonthUsage(r.user, r.feature, now)
    IN  /\ r.op = "CheckAndIncrementUsage" /\ r.pc = "get_usage_again"
        /\ IF id = 0
           THEN /\ procs' = [procs EXCEPT ![p].pc = "done", ![p].result = "error"]
                /\ log' = Append(log, LogEntry(r, "error",
                                               CountOf(r.user, r.feature, now)))
           ELSE AfterFindOrCreate(p, id)
        /\ UNCHANGED <<now, subs, txs, usage, gateway, hist>>

\* usageRepo.IncrementCount(usage.ID), and the call returns nil.
CaiIncrement(p) ==
    LET r == procs[p]
        r2 == [r EXCEPT !.wrote = TRUE]
    IN  /\ r.op = "CheckAndIncrementUsage" /\ r.pc = "increment"
        /\ usage' = IncrementCount(r.usageId)
        /\ procs' = [procs EXCEPT ![p] = [r2 EXCEPT !.pc = "done", !.result = "ok"]]
        /\ log' = Append(log, [LogEntry(r2, "ok", 0) EXCEPT
                                  !.after = usage'[r.usageId].count])
        /\ UNCHANGED <<now, subs, txs, gateway, hist>>

\* History: a webhook delivery for order r.order has been answered.  The
\* first delivery that leaves the transaction stored as success records the
\* stored row.
NoteDelivery(r) ==
    IF r.op = "HandleWebhook" /\ r.result = "ok" /\ r.txid # 0
       /\ txs[r.txid].status = "success" /\ r.order \notin DOMAIN hist.snap
    THEN [hist EXCEPT !.snap = @ @@ (r.order :> txs[r.txid])]
    ELSE hist

\* The handler has answered; the goroutine ends.
Return(p) ==
    /\ procs[p].pc = "done"
    /\ procs' = [procs EXCEPT ![p] = Idle]
    /\ hist' = NoteDelivery(procs[p])
    /\ UNCHANGED <<now, subs, txs, usage, gateway, log>>

-----------------------------------------------------------------------------
(* The clock.                                                               *)

\* Time passes between requests.
TickIdle ==
    /\ AllIdle
    /\ now + TickDays <= MaxNow
    /\ now' = now + TickDays
    /\ UNCHANGED <<subs, txs, usage, gateway, procs, log, hist>>

-----------------------------------------------------------------------------
(* Specifications of the quota engine.  The store starts with u1 holding an *)
(* active subscription bought on day 0, u2 holding a canceled one or none,  *)
(* and no usage.                                                            *)

\* The row createSubscription inserts for user u and plan pl at time t.
NewSubscriptionDefaultDuration(u, pl, t, o) ==
    [user |-> u, plan |-> pl, startDate |-> t,
     endDate |-> t + DefaultDurationDays, status |-> "active", forOrder |-> o]
NewSubscription(u, pl, t, o) ==
    LET durationDays == IF PlanCatalog[pl].durationDays # Nil
                        THEN Deref(PlanCatalog[pl].durationDays)
                        ELSE DefaultDurationDays
    IN  [user |-> u, plan |-> pl, startDate |-> t, endDate |-> t + durationDays,
         status |-> "active", forOrder |-> o]

NoHist ==
    [gwChanges |-> 0, created |-> 0, snap |-> <<>>, sessions |-> <<>>,
     artifacts |-> <<>>]

InitQuota ==
    /\ now = 0
    /\ \E pl \in PlanIds :
         \/ subs = << NewSubscription("u1", pl, 0, <<>>) >>
         \/ subs = << NewSubscription("u1", pl, 0, <<>>),
                      [NewSubscription("u2", pl, 0, <<>>) EXCEPT
                          !.status = "canceled"] >>
    /\ txs = <<>>
    /\ usage = <<>>
    /\ gateway = <<>>
    /\ procs = [p \in Procs |-> Idle]
    /\ log = <<>>
    /\ hist = NoHist

CaiStep(p) ==
    \/ CaiFindActive(p)
    \/ CaiGetUsage(p)
    \/ CaiInsertUsage(p)
    \/ CaiGetUsageAgain(p)
    \/ CaiIncrement(p)
    \/ Return(p)

\* One request at a time.  u2 never holds an active subscription, so its calls
\* return before the feature is consulted: one feature stands for all.
NextQuotaSeq ==
    \/ TickIdle
    \/ \E f \in Features : StartCheckAndIncrementUsage(1, "u1", f)
    \/ StartCheckAndIncrementUsage(1, "u2", "resume")
    \/ CaiStep(1)

SpecQuotaSeq == InitQuota /\ [][NextQuotaSeq]_vars

\* Concurrent requests of one user for one feature.
NextQuota ==
    \/ TickIdle
    \/ \E p \in Procs : StartCheckAndIncrementUsage(p, "u1", "resume")
    \/ \E p \in Procs : CaiStep(p)

SpecQuota == InitQuota /\ [][NextQuota]_vars

-----------------------------------------------------------------------------
(* Properties of the quota engine.                                          *)

Min(a, b) == IF a <= b THEN a ELSE b

\* The calls of (u, f) in month m made while u held an active subscription.
CallsOf(u, f, m) ==
    SelectSeq(log, LAMBDA e : e.user = u /\ e.feature = f /\ e.month = m
                              /\ e.hadActive)

Unlimited(pl, f) == LimitOf(pl, f) = Nil \/ LimitOf(pl, f) = Some(0)

\* C3: with the plan capping a feature at n, concurrent
\* CheckAndIncrementUsage calls for one (user, feature, month) never admit
\* more than the cap allows: the stored count never exceeds n.
C3_CountNeverExceedsCap ==
    \A i \in 1..Len(usage) :
        LET n == MaxAllowed(subs[1].plan, usage[i].feature)
        IN  (usage[i].user = subs[1].user /\ n > 0) => usage[i].count <= n

\* C4: for a plan capping f at n > 0, sequential calls within one month
\* return Ok for exactly the first n calls, each raising the count by 1, and
\* QuotaExceeded for every later call, which leaves the count at n.
C4_FirstNCallsAdmitted ==
    \A u \in Users, f \in Features, m \in 0..MonthIndex(MaxNow) :
        LET rs == CallsOf(u, f, m)
        IN  \A k \in 1..Len(rs) :
                LET n == Deref(LimitOf(rs[k].hadPlan, f))
                IN  (LimitOf(rs[k].hadPlan, f) # Nil /\ n > 0) =>
                        /\ rs[k].result = IF k <= n THEN "ok" ELSE "quota_exceeded"
                        /\ rs[k].before = Min(k - 1, n)
                        /\ rs[k].after = Min(k, n)

C4_Witness ==
    \E k \in 1..Len(log) :
        /\ log[k].result = "quota_exceeded"
        /\ log[k].hadPlan = "basic" /\ log[k].feature = "resume"
        /\ log[k].before = 2 /\ log[k].after = 2

\* C5: the first call of a new month returns Ok on a fresh row that starts at
\* count 0, and the rows of earlier months keep their counts (the number of
\* calls admitted in their month).
C5_NewMonthStartsFresh ==
    /\ \A k \in 1..Len(log) :
          (/\ log[k].hadActive
           /\ log[k].month > 0
           /\ \A j \in 1..(k - 1) :
                 ~(log[j].user = log[k].user /\ log[j].feature = log[k].feature
                   /\ log[j].month = log[k].month))
          => (log[k].result = "ok" /\ log[k].before = 0 /\ log[k].after = 1)
    /\ \A i \in 1..Len(usage) :
          usage[i].periodMonth < MonthIndex(now) * DaysPerMonth =>
              usage[i].count =
                  Cardinality({k \in 1..Len(log) :
                      /\ log[k].user = usage[i].user
                      /\ log[k].feature = usage[i].feature
                      /\ log[k].month * DaysPerMonth = usage[i].periodMonth
                      /\ log[k].result = "ok"})

C5_Witness ==
    \E k \in 1..Len(log), i \in 1..Len(usage) :
        /\ log[k].month = 1 /\ log[k].result = "ok" /\ log[k].after = 1
        /\ usage[i].user = log[k].user /\ usage[i].feature = log[k].feature
        /\ usage[i].periodMonth = 0
        /\ MaxAllowed(log[k].hadPlan, log[k].feature) > 0
        /\ usage[i].count = MaxAllowed(log[k].hadPlan, log[k].feature)

\* C6: with no limit for f in the plan (nil, or 0), no call is denied for
\* quota and every call raises the count by 1.
C6_UnlimitedNeverDenied ==
    \A k \in 1..Len(log) :
        (log[k].hadActive /\ Unlimited(log[k].hadPlan, log[k].feature)) =>
            (log[k].result = "ok" /\ log[k].after = log[k].before + 1)

C6_Witness ==
    /\ \E k \in 1..Len(log) :
          /\ log[k].hadActive /\ LimitOf(log[k].hadPlan, log[k].feature) = Nil
          /\ log[k].before >= 1 /\ log[k].result = "ok"
    /\ \E k \in 1..Len(log) :
          /\ log[k].hadActive /\ LimitOf(log[k].hadPlan, log[k].feature) = Some(0)
          /\ log[k].before >= 1 /\ log[k].result = "ok"

\* C7: a call returns Ok only if the user holds a subscription with stored
\* status active and endDate > now; without one it returns
\* NoActiveSubscription and creates or increments no usage row.
C7_NeedsActiveSubscription ==
    \A k \in 1..Len(log) :
        /\ log[k].result = "ok" => log[k].hadActive
        /\ ~log[k].hadActive =>
              /\ log[k].result = "no_active_subscription"
              /\ ~log[k].wrote
              /\ log[k].after = log[k].before

C7_Witness ==
    /\ \E k \in 1..Len(log) :
          /\ ~log[k].hadActive /\ log[k].result = "no_active_subscription"
          /\ \E i \in 1..Len(subs) :
                subs[i].user = log[k].user /\ subs[i].status = "active"
                /\ subs[i].endDate <= log[k].month * DaysPerMonth
    /\ \E k \in 1..Len(log) :
          /\ ~log[k].hadActive /\ log[k].result = "no_active_subscription"
          /\ \A i \in 1..Len(subs) : subs[i].user # log[k].user
    /\ \E k \in 1..Len(log) : log[k].hadActive /\ log[k].result = "ok"

-----------------------------------------------------------------------------
(* midtrans.Client and the gateway behind it.                               *)

\* Strings that are concatenated or cut are sequences of tokens.
ServerKey == <<"server-key">>

\* hex(SHA-512(s)): a collision-free digest.
Sha512(s) == <<"sha512", s>>

\* Client.VerifySignatureKey
VerifySignatureKey(orderID, statusCode, grossAmount, signatureKey) ==
    Sha512(orderID \o statusCode \o grossAmount \o ServerKey) = signatureKey

\* uuid.String()[:8] of a plan or user id.
Prefix8(id) ==
    CASE id = "u1" -> "11111111"
      [] id = "u2" -> "22222222"
      [] id = "u1b" -> "11111111"
      [] id = "basic" -> "bbbbbbbb"
      [] id = "pro" -> "cccccccc"
      [] id = "odd" -> "dddddddd"
      [] id = "free" -> "ffffffff"
      [] id = "retired" -> "eeeeeeee"
      [] id = "deleted" -> "dededede"

\* fmt.Sprintf("CAREERLY-%s-%s-%d", plan.ID.String()[:8], userID.String()[:8],
\* time.Now().UnixMilli()); the millisecond within day t is ms.
OrderID(pl, u, t, ms) == <<"CAREERLY", Prefix8(pl), Prefix8(u), t, ms>>

\* What the gateway's status endpoint can report for an order.  "none" is an
\* order the gateway holds no payment for yet: CheckTransaction fails (404).
GwNone ==
    [transaction_status |-> "none", fraud_status |-> "",
     payment_type |-> "", transaction_id |-> ""]
GwStatus(ts, fs, pt) ==
    [transaction_status |-> ts, fraud_status |-> fs,
     payment_type |-> pt, transaction_id |-> "mt-1"]

GwPending == GwStatus("pending", "", "bank_transfer")
GwSettlement == GwStatus("settlement", "", "bank_transfer")
GwCaptureAccept == GwStatus("capture", "accept", "credit_card")
GwDeny == GwStatus("deny", "", "credit_card")
GwCaptureChallenge == GwStatus("capture", "challenge", "credit_card")
GwCancel == GwStatus("cancel", "", "bank_transfer")
GwExpire == GwStatus("expire", "", "bank_transfer")
GwRefund == GwStatus("refund", "", "credit_card")
GwAuthorize == GwStatus("authorize", "accept", "credit_card")

\* The customer pays, cancels, or lets the order expire: the gateway's status
\* of order o changes.
GatewayChange(o, g) ==
    /\ o \in DOMAIN gateway
    /\ gateway[o] # g
    /\ hist.gwChanges < MaxGwChanges
    /\ gateway' = [gateway EXCEPT ![o] = g]
    /\ hist' = [hist EXCEPT !.gwChanges = @ + 1]
    /\ UNCHANGED <<now, subs, txs, usage, procs, log>>

-----------------------------------------------------------------------------
(* transactionRepository                                                    *)

\* FindByOrderID: the id of the row with this order_id, 0 for sql.ErrNoRows.
FindByOrderID(o) ==
    IF \E i \in 1..Len(txs) : txs[i].orderId = o
    THEN CHOOSE i \in 1..Len(txs) : txs[i].orderId = o
    ELSE 0

\* Update: the UPDATE statement writes these columns of row id from tx and
\* leaves user_id, plan_id, order_id and gross_amount alone.
UpdateTransactionStatusOnly(id, tx, t) ==
    [txs EXCEPT ![id] =
        [@ EXCEPT !.status = tx.status,
                  !.midtransResponse = tx.midtransResponse,
                  !.updatedAt = t]]
UpdateTransactionRekeyed(id, tx, t) ==
    [txs EXCEPT ![id] =
        [tx EXCEPT !.orderId = IF tx.transactionId # Nil
                               THEN <<Deref(tx.transactionId)>> ELSE @,
                   !.updatedAt = t]]
UpdateTransaction(id, tx, t) ==
    [txs EXCEPT ![id] =
        [@ EXCEPT !.subscriptionId = tx.subscriptionId,
                  !.transactionId = tx.transactionId,
                  !.paymentType = tx.paymentType,
                  !.status = tx.status,
                  !.transactionStatus = tx.transactionStatus,
                  !.fraudStatus = tx.fraudStatus,
                  !.snapToken = tx.snapToken,
                  !.redirectUrl = tx.redirectUrl,
                  !.midtransResponse = tx.midtransResponse,
                  !.paidAt = tx.paidAt,
                  !.expiredAt = tx.expiredAt,
                  !.updatedAt = t]]

-----------------------------------------------------------------------------
(* transactionService                                                       *)

DefaultTransactionExpiryDays == 1

\* mapMidtransStatus
mapMidtransStatusFailOpen(transactionStatus, fraudStatus) ==
    CASE transactionStatus = "capture" ->
            IF fraudStatus = "accept" THEN "success" ELSE "pending"
      [] transactionStatus = "settlement" -> "success"
      [] transactionStatus = "pending" -> "pending"
      [] transactionStatus = "deny" -> "failed"
      [] transactionStatus = "cancel" -> "cancel"
      [] transactionStatus = "expire" -> "expired"
      [] transactionStatus \in {"refund", "partial_refund"} -> "failed"
      [] OTHER -> "success"
mapMidtransStatusNoFraudCheck(transactionStatus, fraudStatus) ==
    CASE transactionStatus \in {"capture", "settlement"} -> "success"
      [] transactionStatus = "pending" -> "pending"
      [] transactionStatus = "deny" -> "failed"
      [] transactionStatus = "cancel" -> "cancel"
      [] transactionStatus = "expire" -> "expired"
      [] transactionStatus \in {"refund", "partial_refund"} -> "failed"
      [] OTHER -> "pending"
mapMidtransStatus(transactionStatus, fraudStatus) ==
    CASE transactionStatus = "capture" ->
            IF fraudStatus = "accept" THEN "success" ELSE "pending"
      [] transactionStatus = "settlement" -> "success"
      [] transactionStatus = "pending" -> "pending"
      [] transactionStatus = "deny" -> "failed"
      [] transactionStatus = "cancel" -> "cancel"
      [] transactionStatus = "expire" -> "expired"
      [] transactionStatus \in {"refund", "partial_refund"} -> "failed"
      [] OTHER -> "pending"

\* "Skip if transaction is already in final state"
IsFinalUnlessPending(status) == status # "pending"
IsFinalWhateverStatus(status) == TRUE
IsFinalOnlyFailed(status) == status = "failed"
IsFinalOnlySuccess(status) == status = "success"
IsFinalState(status) == status = "success" \/ status = "failed"

\* The Transaction CreateTransaction builds after the Snap session exists.
NewTransactionNoToken(u, pl, o, token, t) ==
    [user |-> u, plan |-> pl, orderId |-> o,
     grossAmount |-> PlanCatalog[pl].price, status |-> "pending",
     subscriptionId |-> Nil, transactionId |-> Nil, paymentType |-> Nil,
     transactionStatus |-> Nil, fraudStatus |-> Nil, midtransResponse |-> Nil,
     snapToken |-> Nil, redirectUrl |-> Nil,
     paidAt |-> Nil, expiredAt |-> Some(t + DefaultTransactionExpiryDays),
     createdAt |-> t, updatedAt |-> t]
NewTransaction(u, pl, o, token, t) ==
    [user |-> u, plan |-> pl, orderId |-> o,
     grossAmount |-> PlanCatalog[pl].price, status |-> "pending",
     subscriptionId |-> Nil, transactionId |-> Nil, paymentType |-> Nil,
     transactionStatus |-> Nil, fraudStatus |-> Nil, midtransResponse |-> Nil,
     snapToken |-> Some(token), redirectUrl |-> Some(token),
     paidAt |-> Nil, expiredAt |-> Some(t + DefaultTransactionExpiryDays),
     createdAt |-> t, updatedAt |-> t]

\* A request ends with result res.
FinishWithoutError(p, res) ==
    procs' = [procs EXCEPT ![p].pc = "done", ![p].result = "ok"]
Finish(p, res) == procs' = [procs EXCEPT ![p].pc = "done", ![p].result = res]

----------------------------------------------------------------------------
(* CreateTransaction(userID, req): the request carries only the plan id.    *)

StartCreateTransaction(p, u, pl, ms) ==
    /\ procs[p].op = "idle"
    /\ hist.created < MaxTx
    /\ procs' = [procs EXCEPT ![p] =
            [Idle EXCEPT !.op = "CreateTransaction", !.pc = "check",
                         !.user = u, !.plan = pl, !.ms = ms]]
    /\ hist' = [hist EXCEPT !.created = @ + 1]
    /\ UNCHANGED <<now, subs, txs, usage, gateway, log>>

\* planRepo.FindByID and the plan checks, subscriptionRepo.FindActiveByUserID
\* (its error is dropped: ok = FALSE leaves existingSub nil), userRepo.FindByID,
\* and the order id.
CtCheck(p, ok) ==
    LET r == procs[p]
        existingSub == IF ok THEN FindActiveByUserID(r.user, now) ELSE 0
    IN  /\ r.op = "CreateTransaction" /\ r.pc = "check"
        /\ IF ~PlanFound(r.plan) THEN Finish(p, "plan_not_available")
           ELSE IF ~PlanCatalog[r.plan].isActive THEN Finish(p, "plan_not_available")
           ELSE IF DecimalIsZero(PlanCatalog[r.plan].price)
                THEN Finish(p, "free_plan")
           ELSE IF existingSub # 0 /\ subs[existingSub].plan = r.plan
                THEN Finish(p, "active_subscription_exists")
           ELSE procs' = [procs EXCEPT ![p].pc = "snap",
                              ![p].order = OrderID(r.plan, r.user, now, r.ms)]
        /\ UNCHANGED <<now, subs, txs, usage, gateway, log, hist>>

\* midtrans.CreateTransactionRequest as CreateTransaction fills it, and the
\* token (standing for the redirect URL too) the gateway answers with.
SnapRequest(pl, o) ==
    LET grossAmount == IntPart(PlanCatalog[pl].price)
    IN  [order_id |-> o, gross_amount |-> grossAmount,
         item_id |-> pl, item_price |-> grossAmount, item_quantity |-> 1,
         token |-> o]

\* midtransClient.CreateSnapTransaction with the plan's price as gross amount.
CtSnap(p, ok) ==
    LET r == procs[p]
    IN  /\ r.op = "CreateTransaction" /\ r.pc = "snap"
        /\ IF ok /\ r.order \notin DOMAIN gateway
           THEN /\ gateway' = gateway @@ (r.order :> GwNone)
                /\ hist' = [hist EXCEPT !.sessions =
                                @ @@ (r.order :> SnapRequest(r.plan, r.order))]
                /\ procs' = [procs EXCEPT ![p].pc = "insert"]
           ELSE /\ gateway' = gateway
                /\ hist' = hist
                /\ Finish(p, "failed_to_create_midtrans_transaction")
        /\ UNCHANGED <<now, subs, txs, usage, log>>

\* transactionRepo.Create; order_id is unique in the table.
CtInsert(p, ok) ==
    LET r == procs[p]
    IN  /\ r.op = "CreateTransaction" /\ r.pc = "insert"
        /\ IF ok /\ FindByOrderID(r.order) = 0
           THEN /\ txs' = Append(txs, NewTransaction(r.user, r.plan, r.order,
                                        hist.sessions[r.order].token, now))
                /\ Finish(p, "ok")
           ELSE /\ txs' = txs
                /\ Finish(p, "failed_to_create_transaction_record")
        /\ UNCHANGED <<now, subs, usage, gateway, log, hist>>

----------------------------------------------------------------------------
(* HandleWebhook(payload) and CheckTransactionStatus(orderID)               *)

\* The payload is a map[string]interface{} decoded from JSON: a value is a
\* string or something else (a number here).
JsonString(s) == [t |-> "string", v |-> s]
JsonNumber(n) == [t |-> "number", v |-> n]

\* payload[key].(string) with the ok flag dropped: the string, or "" for a
\* value that is not a string.
AsStringNilAsText(x) == IF x.t = "string" THEN x.v ELSE <<"<nil>">>
AsString(x) == IF x.t = "string" THEN x.v ELSE <<>>

\* A notification about order o (which the webhook handler does not trust).
WebhookPayload(o, sig) ==
    [order_id |-> JsonString(o), status_code |-> JsonString(<<"200">>),
     gross_amount |-> JsonString(<<"50.00">>),
     transaction_status |-> JsonString("settlement"),
     fraud_status |-> JsonString("accept"),
     signature_key |-> JsonString(sig)]

\* HandleWebhook up to the store lookup: order_id and the signature.
StartHandleWebhook(p, payload) ==
    /\ procs[p].op = "idle"
    /\ LET orderID == AsString(payload.order_id)
           statusCode == AsString(payload.status_code)
           grossAmount == AsString(payload.gross_amount)
           signatureKey == AsString(payload.signature_key)
           r == [Idle EXCEPT !.op = "HandleWebhook", !.payload = payload,
                             !.order = orderID]
       IN  procs' = [procs EXCEPT ![p] =
              IF orderID = <<>>
              THEN [r EXCEPT !.pc = "done", !.result = "missing_order_id"]
              ELSE IF signatureKey # <<>>
                      /\ ~VerifySignatureKey(orderID, statusCode, grossAmount,
                                             signatureKey)
              THEN [r EXCEPT !.pc = "done", !.result = "invalid_signature"]
              ELSE [r EXCEPT !.pc = "find"]]
    /\ UNCHANGED <<now, subs, txs, usage, gateway, log, hist>>

StartCheckTransactionStatus(p, o) ==
    /\ procs[p].op = "idle"
    /\ procs' = [procs EXCEPT ![p] =
            [Idle EXCEPT !.op = "CheckTransactionStatus", !.pc = "find",
                         !.order = o]]
    /\ UNCHANGED <<now, subs, txs, usage, gateway, log, hist>>

Reconciling(p) ==
    procs[p].op = "HandleWebhook" \/ procs[p].op = "CheckTransactionStatus"

\* transactionRepo.FindByOrderID and the final-state short-circuit.
ReconFind(p, ok) ==
    LET r == procs[p]
        id == FindByOrderID(r.order)
    IN  /\ Reconciling(p) /\ r.pc = "find"
        /\ IF ~ok THEN Finish(p, "error")
           ELSE IF id = 0 THEN Finish(p, "transaction_not_found")
           ELSE IF IsFinalState(txs[id].status)
                THEN procs' = [procs EXCEPT ![p].pc = "done", ![p].result = "ok",
                                   ![p].txid = id, ![p].tx = txs[id],
                                   ![p].readStatus = txs[id].status]
           ELSE procs' = [procs EXCEPT ![p].pc = "query", ![p].txid = id,
                              ![p].tx = txs[id],
                              ![p].readStatus = txs[id].status]
        /\ UNCHANGED <<now, subs, txs, usage, gateway, log, hist>>

\* The status fields HandleWebhook maps to the new status: those of the
\* gateway's answer statusResp, whatever the payload says.
DecidingStatusOfPayload(payload, statusResp) ==
    [transaction_status |-> AsString(payload.transaction_status),
     fraud_status |-> AsString(payload.fraud_status)]
DecidingStatus(payload, statusResp) ==
    [transaction_status |-> statusResp.transaction_status,
     fraud_status |-> statusResp.fraud_status]

\* midtransClient.CheckTransaction(orderID), then the handler's bookkeeping on
\* its copy of the transaction up to the call of createSubscription or Update.
ReconQuery(p, ok) ==
    LET r == procs[p]
        statusResp == gateway[r.order]
        deciding == IF r.op = "HandleWebhook"
                    THEN DecidingStatus(r.payload, statusResp)
                    ELSE [transaction_status |-> statusResp.transaction_status,
                          fraud_status |-> statusResp.fraud_status]
        newStatus == mapMidtransStatus(deciding.transaction_status,
                                       deciding.fraud_status)
        tx1 == [r.tx EXCEPT
                  !.transactionId = Some(statusResp.transaction_id),
                  !.paymentType = Some(statusResp.payment_type),
                  !.transactionStatus = Some(statusResp.transaction_status),
                  !.fraudStatus = Some(statusResp.fraud_status),
                  !.status = newStatus]
        tx2 == IF r.op = "HandleWebhook"
               THEN [tx1 EXCEPT !.midtransResponse = Some(r.payload),
                        !.paidAt = IF newStatus = "success" THEN Some(now) ELSE @]
               ELSE [tx1 EXCEPT
                        !.paidAt = IF newStatus = "success"
                                      /\ r.tx.subscriptionId = Nil
                                   THEN Some(now) ELSE @]
    IN  /\ Reconciling(p) /\ r.pc = "query"
        /\ IF ~ok \/ statusResp.transaction_status = "none"
           THEN Finish(p, "error")
           ELSE procs' = [procs EXCEPT
                    ![p].tx = tx2,
                    ![p].effects = @ + 1,
                    ![p].pc = IF newStatus = "success" /\ r.tx.subscriptionId = Nil
                              THEN "cs_plan" ELSE "update"]
        /\ UNCHANGED <<now, subs, txs, usage, gateway, log, hist>>

\* createSubscription: planRepo.FindByID, the duration, now and endDate.
CsFindPlan(p, ok) ==
    LET r == procs[p]
    IN  /\ Reconciling(p) /\ r.pc = "cs_plan"
        /\ IF ~ok \/ ~PlanFound(r.tx.plan)
           THEN Finish(p, "error")
           ELSE procs' = [procs EXCEPT ![p].pc = "cs_find_active",
                                       ![p].startDate = now]
        /\ UNCHANGED <<now, subs, txs, usage, gateway, log, hist>>

\* createSubscription: subscriptionRepo.FindActiveByUserID, error dropped.
CsFindActive(p, ok) ==
    LET r == procs[p]
        existingSub == IF ok THEN FindActiveByUserID(r.tx.user, now) ELSE 0
    IN  /\ Reconciling(p) /\ r.pc = "cs_find_active"
        /\ procs' = [procs EXCEPT ![p].sub = existingSub,
                         ![p].pc = IF existingSub # 0 THEN "cs_cancel"
                                   ELSE "cs_create"]
        /\ UNCHANGED <<now, subs, txs, usage, gateway, log, hist>>

\* createSubscription: existingSub.Status = canceled and
\* subscriptionRepo.Update (SET status, end_date WHERE id), error dropped.
CsCancelNotStored(p, ok) ==
    LET r == procs[p]
    IN  /\ Reconciling(p) /\ r.pc = "cs_cancel"
        /\ subs' = subs
        /\ procs' = [procs EXCEPT ![p].pc = "cs_create",
                                  ![p].effects = IF ok THEN @ + 1 ELSE @]
        /\ UNCHANGED <<now, txs, usage, gateway, log, hist>>
CsCancel(p, ok) ==
    LET r == procs[p]
    IN  /\ Reconciling(p) /\ r.pc = "cs_cancel"
        /\ subs' = IF ok THEN [subs EXCEPT ![r.sub].status = "canceled"] ELSE subs
        /\ procs' = [procs EXCEPT ![p].pc = "cs_create",
                                  ![p].effects = IF ok THEN @ + 1 ELSE @]
        /\ UNCHANGED <<now, txs, usage, gateway, log, hist>>

\* createSubscription: subscriptionRepo.Create, and back in the handler
\* transaction.SubscriptionID = &subscriptionID.
CsCreate(p, ok) ==
    LET r == procs[p]
    IN  /\ Reconciling(p) /\ r.pc = "cs_create"
        /\ IF ok
           THEN /\ subs' = Append(subs, NewSubscription(r.tx.user, r.tx.plan,
                                                       r.startDate, r.order))
                /\ procs' = [procs EXCEPT ![p].pc = "update",
                                 ![p].effects = @ + 1,
                                 ![p].tx = [@ EXCEPT !.subscriptionId =
                                                Some(Len(subs) + 1)]]
           ELSE /\ subs' = subs
                /\ Finish(p, "error")
        /\ UNCHANGED <<now, txs, usage, gateway, log, hist>>

\* transactionRepo.Update(transaction), and the handler returns.
ReconUpdate(p, ok) ==
    LET r == procs[p]
    IN  /\ Reconciling(p) /\ r.pc = "update"
        /\ IF ok
           THEN /\ txs' = UpdateTransaction(r.txid, r.tx, now)
                /\ procs' = [procs EXCEPT ![p].pc = "done", ![p].result = "ok",
                                          ![p].effects = @ + 1]
           ELSE /\ txs' = txs
                /\ Finish(p, "error")
        /\ UNCHANGED <<now, subs, usage, gateway, log, hist>>

----------------------------------------------------------------------------
(* Specifications of the reconciliation state machine.  The store starts    *)
(* with no transaction; u1 holds no subscription or one bought on day 0.    *)
(* Every store statement and gateway call succeeds (a gateway that holds no *)
(* payment for the order answers with an error).                            *)

InitRecon ==
    /\ now = 0
    /\ \/ subs = <<>>
       \/ \E pl \in PlanIds : subs = << NewSubscription("u1", pl, 0, <<>>) >>
    /\ txs = <<>>
    /\ usage = <<>>
    /\ gateway = <<>>
    /\ procs = [p \in Procs |-> Idle]
    /\ log = <<>>
    /\ hist = NoHist

CtStep(p) ==
    \/ CtCheck(p, TRUE)
    \/ CtSnap(p, TRUE)
    \/ CtInsert(p, TRUE)

ReconStep(p) ==
    \/ ReconFind(p, TRUE)
    \/ ReconQuery(p, TRUE)
    \/ CsFindPlan(p, TRUE)
    \/ CsFindActive(p, TRUE)
    \/ CsCancel(p, TRUE)
    \/ CsCreate(p, TRUE)
    \/ ReconUpdate(p, TRUE)

\* Requests of user u1, one at a time, each in a millisecond of its own.
NextReconSeq ==
    \/ TickIdle
    \/ AllIdle /\ \E o \in DOMAIN gateway, g \in {GwPending, GwSettlement, GwDeny} :
                      GatewayChange(o, g)
    \/ \E pl \in PlanIds : StartCreateTransaction(1, "u1", pl, hist.created)
    \/ \E o \in DOMAIN gateway : StartHandleWebhook(1, WebhookPayload(o, <<>>))
    \/ \E o \in DOMAIN gateway : StartCheckTransactionStatus(1, o)
    \/ CtStep(1)
    \/ ReconStep(1)
    \/ Return(1)

SpecReconSeq == InitRecon /\ [][NextReconSeq]_vars

\* Concurrent requests of user u1, all within one day.
NextRecon ==
    \/ \E o \in DOMAIN gateway, g \in {GwPending, GwSettlement, GwDeny} :
          GatewayChange(o, g)
    \/ \E p \in Procs, pl \in PlanIds :
          StartCreateTransaction(p, "u1", pl, hist.created)
    \/ \E p \in Procs, o \in DOMAIN gateway :
          StartHandleWebhook(p, WebhookPayload(o, <<>>))
    \/ \E p \in Procs, o \in DOMAIN gateway : StartCheckTransactionStatus(p, o)
    \/ \E p \in Procs : CtStep(p)
    \/ \E p \in Procs : ReconStep(p)
    \/ \E p \in Procs : Return(p)

SpecRecon == InitRecon /\ [][NextRecon]_vars

----------------------------------------------------------------------------
(* Claims about the reconciliation state machine.                           *)

SubsForOrder(o) == {i \in 1..Len(subs) : subs[i].forOrder = o}

StoredActive(u) ==
    {i \in 1..Len(subs) : subs[i].user = u /\ subs[i].status = "active"}

TerminalRead(p) ==
    Reconciling(p) /\ procs[p].readStatus \in {"success", "failed"}

\* C1: concurrent HandleWebhook and CheckTransactionStatus calls for one paid
\* order create exactly one Subscription for that payment: no order ever has
\* two Subscription rows created for it.
C1_OneSubscriptionPerPayment ==
    \A o \in DOMAIN gateway : Cardinality(SubsForOrder(o)) <= 1

\* C2: in every reachable state each user has at most one Subscription row
\* whose stored status is active.
C2_AtMostOneStoredActive ==
    \A u \in Users : Cardinality(StoredActive(u)) <= 1

\* C8: once a webhook delivery has left the transaction stored as success,
\* every later delivery in sequence leaves the same state: the stored
\* Transaction row equals the row after that first delivery (subscriptionId
\* included, and set), and exactly one Subscription exists for the order.
C8_WebhookReplayIdempotent ==
    \A o \in DOMAIN hist.snap :
        /\ FindByOrderID(o) # 0
        /\ txs[FindByOrderID(o)] = hist.snap[o]
        /\ hist.snap[o].subscriptionId # Nil
        /\ Cardinality(SubsForOrder(o)) = 1

\* A repeated delivery has been answered on a later day than the first one.
C8_Witness ==
    \E p \in Procs :
        /\ procs[p].op = "HandleWebhook" /\ procs[p].pc = "done"
        /\ procs[p].result = "ok"
        /\ procs[p].order \in DOMAIN hist.snap
        /\ now > hist.snap[procs[p].order].updatedAt

\* C9: a HandleWebhook or CheckTransactionStatus call that reads the stored
\* status success or failed ends at once with Ok and has made no gateway
\* query, created or canceled no Subscription and written no Transaction.
C9_TerminalIsNoOp ==
    \A p \in Procs :
        TerminalRead(p) =>
            /\ procs[p].pc = "done"
            /\ procs[p].result = "ok"
            /\ procs[p].effects = 0

\* Both entry points have short-circuited, one on success and one on failed.
C9_Witness ==
    \E p, q \in Procs :
        /\ procs[p].op = "HandleWebhook" /\ procs[p].pc = "done"
        /\ procs[p].readStatus = "success"
        /\ procs[q].op = "CheckTransactionStatus" /\ procs[q].pc = "done"
        /\ procs[q].readStatus \in {"success", "failed"}

\* C10: terminal statuses are absorbing: no step changes the stored status of
\* a Transaction that is stored as success or failed.
C10_TerminalAbsorbing ==
    [][\A i \in 1..Len(txs) :
          txs[i].status \in {"success", "failed"} =>
              txs'[i].status = txs[i].status]_vars

----------------------------------------------------------------------------
(* Notifications as the gateway, or anybody else, can post them.            *)

\* A notification about order o with its own status fields and signature.
Notification(o, ts, fs, sig) ==
    [order_id |-> JsonString(o), status_code |-> JsonString(<<"200">>),
     gross_amount |-> JsonString(<<"50.00">>),
     transaction_status |-> JsonString(ts), fraud_status |-> JsonString(fs),
     signature_key |-> sig]

\* The signature the gateway computes for a notification about order o.
GatewaySignature(o) == Sha512(o \o <<"200">> \o <<"50.00">> \o ServerKey)

\* signature_key values of a notification about order o: the empty string
\* (sandbox), the gateway's signature, one made without the server key, the
\* gateway's for another amount, and a JSON number.
Signatures(o) ==
    { JsonString(<<>>), JsonString(GatewaySignature(o)),
      JsonString(Sha512(o \o <<"200">> \o <<"50.00">> \o <<"guess">>)),
      JsonString(Sha512(o \o <<"200">> \o <<"1.00">> \o ServerKey)),
      JsonNumber(12345) }

\* The status fields a notification can carry.
NotifiedStatuses == { <<"settlement", "accept">>, <<"deny", "">> }

\* Sequential requests of user u1 within one day, with every gateway status
\* and every kind of notification.
NextWebhook ==
    \/ AllIdle /\ \E o \in DOMAIN gateway,
                     g \in {GwPending, GwSettlement, GwCaptureAccept,
                            GwCaptureChallenge, GwDeny, GwCancel, GwExpire,
                            GwRefund, GwAuthorize} : GatewayChange(o, g)
    \/ \E pl \in PlanIds : StartCreateTransaction(1, "u1", pl, hist.created)
    \/ \E o \in DOMAIN gateway, st \in NotifiedStatuses :
          \E sig \in Signatures(o) :
             StartHandleWebhook(1, Notification(o, st[1], st[2], sig))
    \/ \E o \in DOMAIN gateway : StartCheckTransactionStatus(1, o)
    \/ CtStep(1)
    \/ ReconStep(1)
    \/ Return(1)

SpecWebhook == InitRecon /\ [][NextWebhook]_vars

\* C11: a HandleWebhook call whose payload carries a non-empty signature_key
\* other than SHA512(orderId + statusCode + grossAmount + serverKey) ends with
\* InvalidSignature right away: it has read no Transaction, made no gateway
\* call and written nothing.
C11_BadSignatureRejected ==
    \A p \in Procs :
        LET r == procs[p]
            pl == r.payload
        IN  (/\ r.op = "HandleWebhook"
             /\ pl.signature_key # JsonString(<<>>)
             /\ pl.signature_key #
                   JsonString(<<"sha512", pl.order_id.v \o pl.status_code.v
                                   \o pl.gross_amount.v \o <<"server-key">> >>))
            => (/\ r.pc = "done" /\ r.result = "invalid_signature"
                /\ r.txid = 0 /\ r.effects = 0)

\* A signature_key that is a JSON string, is not empty and is not the
\* gateway's signature is rejected right away.
C11_BadStringSignatureRejected ==
    \A p \in Procs :
        LET r == procs[p]
            pl == r.payload
        IN  (/\ r.op = "HandleWebhook"
             /\ pl.signature_key.t = "string"
             /\ pl.signature_key.v # <<>>
             /\ pl.signature_key.v #
                   <<"sha512", pl.order_id.v \o pl.status_code.v
                                  \o pl.gross_amount.v \o <<"server-key">> >>)
            => (/\ r.pc = "done" /\ r.result = "invalid_signature"
                /\ r.txid = 0 /\ r.effects = 0)

\* A forged notification was rejected for a pending transaction the gateway
\* reports as settled.
C11_Witness ==
    \E p \in Procs :
        /\ procs[p].op = "HandleWebhook"
        /\ procs[p].result = "invalid_signature"
        /\ FindByOrderID(procs[p].order) # 0
        /\ txs[FindByOrderID(procs[p].order)].status = "pending"
        /\ gateway[procs[p].order] = GwSettlement

----------------------------------------------------------------------------
(* Two runs of HandleWebhook side by side.  Users u1 and u2 have each       *)
(* created a transaction for the same plan on day 0 and hold the same       *)
(* subscriptions; process 1 serves notifications about u1's order, process  *)
(* 2 about u2's, and the two start from stores that agree up to the names   *)
(* of user and order and from the same gateway status.                      *)

TwinOrder(u, pl) == OrderID(pl, u, 0, IF u = "u1" THEN 0 ELSE 1)

OrderOfUser(u) ==
    LET i == CHOOSE i \in 1..Len(txs) : txs[i].user = u IN txs[i].orderId

\* A user's Subscription rows without the names of user and order.
SubscriptionView(i) ==
    [plan |-> subs[i].plan, status |-> subs[i].status,
     startDate |-> subs[i].startDate, endDate |-> subs[i].endDate]

\* What the store holds for user u, without the names of user and order.
WorldView(u) ==
    [transactions |->
        { [txs[i] EXCEPT !.user = "", !.orderId = <<>>,
                         !.snapToken = Nil, !.redirectUrl = Nil,
                         !.subscriptionId =
                             IF @ = Nil THEN Nil
                             ELSE Some(SubscriptionView(Deref(@)))] :
          i \in {j \in 1..Len(txs) : txs[j].user = u} },
     subscriptions |->
        { SubscriptionView(i) : i \in {j \in 1..Len(subs) : subs[j].user = u} }]

InitTwin ==
    /\ now = 0
    /\ \E pl \in PlanIds :
         /\ txs = << NewTransaction("u1", pl, TwinOrder("u1", pl),
                                    TwinOrder("u1", pl), 0),
                     NewTransaction("u2", pl, TwinOrder("u2", pl),
                                    TwinOrder("u2", pl), 0) >>
         /\ gateway = (TwinOrder("u1", pl) :> GwNone)
                         @@ (TwinOrder("u2", pl) :> GwNone)
         /\ \/ subs = <<>>
            \/ \E other \in PlanIds \ {pl} :
                  subs = << NewSubscription("u1", other, 0, <<>>),
                            NewSubscription("u2", other, 0, <<>>) >>
    /\ usage = <<>>
    /\ procs = [p \in Procs |-> Idle]
    /\ log = <<>>
    /\ \E pl \in PlanIds :
         /\ txs[1].plan = pl
         /\ hist = [NoHist EXCEPT
                       !.created = 2,
                       !.sessions =
                          (TwinOrder("u1", pl) :>
                              SnapRequest(pl, TwinOrder("u1", pl)))
                          @@ (TwinOrder("u2", pl) :>
                                 SnapRequest(pl, TwinOrder("u2", pl)))]

\* The notifications about order o that pass the signature gate.
PassingNotifications(o) ==
    { Notification(o, st[1], st[2], sig) :
        st \in NotifiedStatuses,
        sig \in {JsonString(<<>>), JsonString(GatewaySignature(o))} }

NextTwin ==
    \/ AllIdle /\ \E o \in DOMAIN gateway, g \in {GwPending, GwSettlement, GwDeny} :
                      GatewayChange(o, g)
    \/ /\ procs[2].op = "idle"
       /\ WorldView("u1") = WorldView("u2")
       /\ gateway[OrderOfUser("u1")] = gateway[OrderOfUser("u2")]
       /\ \E n \in PassingNotifications(OrderOfUser("u1")) :
             StartHandleWebhook(1, n)
    \/ /\ procs[1].op = "HandleWebhook"
       /\ \E n \in PassingNotifications(OrderOfUser("u2")) :
             StartHandleWebhook(2, n)
    \/ \E p \in {1, 2} : ReconStep(p)
    \/ \E p \in {1, 2} :
          /\ \A q \in {1, 2} : procs[q].pc \in {"done", "idle"}
          /\ Return(p)

SpecTwin == InitTwin /\ [][NextTwin]_vars

\* The outcome of a HandleWebhook call for user u.
Outcome(p, u) ==
    [result |-> procs[p].result,
     status |-> txs[FindByOrderID(OrderOfUser(u))].status,
     world |-> [WorldView(u) EXCEPT
                   !.transactions =
                       { [status |-> t.status,
                          subscriptionId |-> t.subscriptionId] : t \in @ }]]

\* C12: two HandleWebhook calls that start from the same store state, get the
\* same gateway status and carry payloads that pass the signature gate end
\* with the same Transaction status, subscriptionId and Subscriptions,
\* whatever transaction_status and fraud_status their payloads carry.
C12_PayloadStatusIgnored ==
    (/\ procs[1].op = "HandleWebhook" /\ procs[1].pc = "done"
     /\ procs[2].op = "HandleWebhook" /\ procs[2].pc = "done")
    => Outcome(1, "u1") = Outcome(2, "u2")

\* Both calls have ended for a settled payment, one told settlement and the
\* other deny.
C12_Witness ==
    /\ procs[1].op = "HandleWebhook" /\ procs[1].pc = "done"
    /\ procs[2].op = "HandleWebhook" /\ procs[2].pc = "done"
    /\ procs[1].payload.transaction_status # procs[2].payload.transaction_status
    /\ procs[1].effects > 0 /\ procs[2].effects > 0
    /\ gateway[procs[1].order] = GwSettlement

----------------------------------------------------------------------------
(* Claims about the status mapping inside the reconciliation.               *)

\* The gateway answered the query of process p with a paid status.
AnsweredPaid(p) ==
    \/ procs[p].tx.transactionStatus = Some("settlement")
    \/ /\ procs[p].tx.transactionStatus = Some("capture")
       /\ procs[p].tx.fraudStatus = Some("accept")

\* The gateway answered the query of process p with a status outside the
\* mapping table.
AnsweredUnrecognized(p) ==
    /\ Reconciling(p) /\ procs[p].effects > 0
    /\ procs[p].tx.transactionStatus # Nil
    /\ Deref(procs[p].tx.transactionStatus) \notin
          {"capture", "settlement", "pending", "deny", "cancel", "expire",
           "refund", "partial_refund"}

\* C13: a stored status becomes success, and a Subscription is created, only
\* in a reconciliation whose gateway query answered settlement, or capture
\* with fraud status accept; a reconciliation whose query answered an
\* unrecognized status creates no Subscription and ends with the Transaction
\* stored as pending.
C13_SuccessOnlyWhenGatewayPaid ==
    /\ [](\A p \in Procs :
            AnsweredUnrecognized(p) =>
               /\ procs[p].pc \in {"update", "done"}
               /\ procs[p].tx.status = "pending"
               /\ procs[p].tx.subscriptionId = Nil
               /\ txs[procs[p].txid].status # "success"
               /\ procs[p].pc = "done" => txs[procs[p].txid].status = "pending"
               /\ SubsForOrder(procs[p].order) = {})
    /\ [][/\ \A i \in 1..Len(txs) :
               (txs[i].status # "success" /\ txs'[i].status = "success") =>
                  \E p \in Procs :
                     /\ Reconciling(p) /\ procs[p].pc = "update"
                     /\ procs[p].txid = i /\ AnsweredPaid(p)
          /\ Len(subs') > Len(subs) =>
                  \E p \in Procs :
                     /\ Reconciling(p) /\ procs[p].pc = "cs_create"
                     /\ AnsweredPaid(p)]_vars

\* A reconciliation has ended after the gateway answered "authorize".
C13_Witness ==
    \E p \in Procs :
        /\ AnsweredUnrecognized(p) /\ procs[p].pc = "done"
        /\ procs[p].result = "ok" /\ procs[p].effects = 2

----------------------------------------------------------------------------
(* mapMidtransStatus on its own.                                            *)

\* Status strings a gateway answer can carry: those of the mapping's switch
\* and some it does not name (the switch compares case-sensitively).
TransactionStatusInputs ==
    {"capture", "settlement", "pending", "deny", "cancel", "expire", "refund",
     "partial_refund", "authorize", "Settlement", "success", ""}
FraudStatusInputs == {"accept", "challenge", "deny", "Accept", ""}

InitMapStatus ==
    /\ now = 0
    /\ subs = <<>> /\ txs = <<>> /\ usage = <<>> /\ gateway = <<>>
    /\ log = <<>>
    /\ hist = NoHist
    /\ \E ts \in TransactionStatusInputs, fs \in FraudStatusInputs :
          procs = [p \in Procs |->
                      IF p = 1
                      THEN [Idle EXCEPT !.op = "mapMidtransStatus",
                                        !.pc = "call", !.args = <<ts, fs>>]
                      ELSE Idle]

CallMapMidtransStatus(p) ==
    /\ procs[p].op = "mapMidtransStatus" /\ procs[p].pc = "call"
    /\ procs' = [procs EXCEPT
                    ![p].ret = mapMidtransStatus(procs[p].args[1],
                                                 procs[p].args[2]),
                    ![p].pc = "done"]
    /\ UNCHANGED <<now, subs, txs, usage, gateway, log, hist>>

NextMapStatus == CallMapMidtransStatus(1)

SpecMapStatus == InitMapStatus /\ [][NextMapStatus]_vars

\* The table of section 4.2 of the specification.
StatusTable(ts, fs) ==
    IF ts = "capture" /\ fs = "accept" THEN "success"
    ELSE IF ts = "capture" THEN "pending"
    ELSE IF ts = "settlement" THEN "success"
    ELSE IF ts = "pending" THEN "pending"
    ELSE IF ts = "deny" THEN "failed"
    ELSE IF ts = "cancel" THEN "cancel"
    ELSE IF ts = "expire" THEN "expired"
    ELSE IF ts = "refund" \/ ts = "partial_refund" THEN "failed"
    ELSE "pending"

\* C14: mapMidtransStatus(transactionStatus, fraudStatus) returns the status
\* the table gives, for every input.
C14_MapMatchesTable ==
    \A p \in Procs :
        (procs[p].op = "mapMidtransStatus" /\ procs[p].pc = "done") =>
            procs[p].ret = StatusTable(procs[p].args[1], procs[p].args[2])

\* The mapping has answered pending for capture with fraud status challenge.
C14_Witness ==
    /\ procs[1].op = "mapMidtransStatus" /\ procs[1].pc = "done"
    /\ procs[1].args = <<"capture", "challenge">>
    /\ procs[1].ret = "pending"

----------------------------------------------------------------------------
(* CreateTransaction on its own: requests of user u1 for every plan id, one *)
(* at a time, with each store statement and gateway call succeeding or      *)
(* failing.                                                                 *)

\* Plan ids a request can carry: those of the catalog and one of no row.
RequestedPlanIds == CatalogIds \cup {"ghost"}

NextCreate ==
    \/ TickIdle
    \/ \E pl \in RequestedPlanIds :
          StartCreateTransaction(1, "u1", pl, hist.created)
    \/ \E ok \in BOOLEAN : CtCheck(1, ok)
    \/ \E ok \in BOOLEAN : CtSnap(1, ok)
    \/ \E ok \in BOOLEAN : CtInsert(1, ok)
    \/ Return(1)

SpecCreate == InitRecon /\ [][NextCreate]_vars

\* C15: every gateway session CreateTransaction requests carries a gross
\* amount, and an item price, equal to the stored price of the plan.
C15_SessionAmountIsPlanPrice ==
    \A o \in DOMAIN hist.sessions :
        LET req == hist.sessions[o]
        IN  /\ Decimal(req.gross_amount, 0) = PlanCatalog[req.item_id].price
            /\ Decimal(req.item_price, 0) = PlanCatalog[req.item_id].price

\* For plans priced in whole units the session carries the stored price.
C15_WholePriceRequested ==
    \A o \in DOMAIN hist.sessions :
        LET req == hist.sessions[o]
        IN  PlanCatalog[req.item_id].price.hundredths = 0 =>
               /\ Decimal(req.gross_amount, 0) = PlanCatalog[req.item_id].price
               /\ Decimal(req.item_price, 0) = PlanCatalog[req.item_id].price

----------------------------------------------------------------------------
(* Supersession: what a reconciliation that moves a Transaction to success  *)
(* leaves of the Subscriptions of its user.                                 *)

\* The call of process p has moved its Transaction to success.
MovedToSuccess(p) ==
    /\ Reconciling(p) /\ procs[p].pc = "done" /\ procs[p].result = "ok"
    /\ procs[p].readStatus # "success"
    /\ txs[procs[p].txid].status = "success"

----------------------------------------------------------------------------
(* CreateTransaction: rejections and the order of session and insert.       *)

\* The call of process p is a CreateTransaction past its checks.
CreateChecked(p) ==
    procs[p].op = "CreateTransaction" /\ procs[p].pc # "check"

\* The user of the call holds an active Subscription for the requested plan.
HoldsRequestedPlan(p) ==
    \E i \in ActiveRows(procs[p].user, now) : subs[i].plan = procs[p].plan

\* C18: a CreateTransaction call of a user who holds an active Subscription
\* for exactly the requested plan fails with ActiveSubscriptionExists and
\* opens no gateway session and inserts no Transaction (it has made no order
\* id to open or insert one under), whatever the outcome of the lookup call.
C18_SamePlanRejected ==
    \A p \in Procs :
        (CreateChecked(p) /\ HoldsRequestedPlan(p)) =>
            /\ procs[p].pc = "done"
            /\ procs[p].result = "active_subscription_exists"
            /\ procs[p].order = <<>>

\* The plan id names no stored plan, or a soft-deleted or inactive one, or
\* one whose price is zero.
NotPurchasable(pl) ==
    \/ pl \notin DOMAIN PlanCatalog
    \/ PlanCatalog[pl].deletedAt # Nil
    \/ ~PlanCatalog[pl].isActive
    \/ PlanCatalog[pl].price = Decimal(0, 0)

\* The plan id names no stored plan, a soft-deleted one or an inactive one.
NotAvailable(pl) ==
    \/ pl \notin DOMAIN PlanCatalog
    \/ PlanCatalog[pl].deletedAt # Nil
    \/ ~PlanCatalog[pl].isActive

\* C19: a CreateTransaction call for an unknown, soft-deleted or inactive
\* plan or a plan of price zero ends rejected without an order id, and no
\* step taken while it is in progress changes the store, the gateway or the
\* sessions requested; unknown, soft-deleted and inactive plans are reported
\* as PlanNotAvailable.
C19_BadPlanRejected ==
    /\ [](\A p \in Procs :
            (CreateChecked(p) /\ NotPurchasable(procs[p].plan)) =>
                /\ procs[p].pc = "done"
                /\ procs[p].order = <<>>
                /\ procs[p].result =
                       IF NotAvailable(procs[p].plan) THEN "plan_not_available"
                       ELSE "free_plan")
    /\ [][(\E p \in Procs : /\ procs[p].op = "CreateTransaction"
                            /\ NotPurchasable(procs[p].plan))
             => UNCHANGED <<subs, txs, usage, gateway, hist.sessions>>]_vars

\* A call for the soft-deleted plan has been answered with PlanNotAvailable.
C19_Witness ==
    \E p \in Procs :
        /\ CreateChecked(p)
        /\ procs[p].plan = "deleted"
        /\ PlanCatalog["deleted"].deletedAt # Nil
        /\ procs[p].result = "plan_not_available"

\* C20: every stored Transaction belongs to a session the gateway created
\* and carries the token and redirect URL of that session; a CreateTransaction
\* call whose CreateSnapTransaction failed has left no row for its order id;
\* and every row is inserted with status pending.
C20_InsertOnlyAfterSession ==
    /\ [](/\ \A i \in 1..Len(txs) :
               /\ txs[i].orderId \in DOMAIN hist.sessions
               /\ txs[i].snapToken = Some(hist.sessions[txs[i].orderId].token)
               /\ txs[i].redirectUrl = Some(hist.sessions[txs[i].orderId].token)
          /\ \A p \in Procs :
               (/\ procs[p].op = "CreateTransaction"
                /\ procs[p].result = "failed_to_create_midtrans_transaction")
                   => /\ FindByOrderID(procs[p].order) = 0
                      /\ procs[p].order \notin DOMAIN hist.sessions)
    /\ [][Len(txs') > Len(txs) =>
             /\ Len(txs') = Len(txs) + 1
             /\ txs'[Len(txs')].status = "pending"
             /\ txs'[Len(txs')].orderId \in DOMAIN hist.sessions]_vars

\* A call has made its order id, has failed at the gateway and has left no
\* row for that order id.
C20_Witness ==
    \E p \in Procs :
        /\ procs[p].op = "CreateTransaction" /\ procs[p].pc = "done"
        /\ procs[p].result = "failed_to_create_midtrans_transaction"
        /\ procs[p].order # <<>>
        /\ FindByOrderID(procs[p].order) = 0

----------------------------------------------------------------------------
(* From no subscription to an exhausted quota: one user, one request at a   *)
(* time, who asks for the resume feature, buys the plan with maxResumes = 1 *)
(* and whose payment the gateway settles.  The store starts with nothing of *)
(* user u1; another user, u2, holds a subscription and may buy the plan     *)
(* too.  Every store statement and gateway call succeeds.                   *)

InitE2E ==
    /\ now = 0
    /\ subs = << NewSubscription("u2", "basic", 0, <<>>) >>
    /\ txs = <<>>
    /\ usage = <<>>
    /\ gateway = <<>>
    /\ procs = [p \in Procs |-> Idle]
    /\ log = <<>>
    /\ hist = NoHist

\* The plan the user buys: maxResumes = 1.
E2EPlan == "pro"

NextE2E ==
    \/ TickIdle
    \/ StartCheckAndIncrementUsage(1, "u1", "resume")
    \/ CaiStep(1)
    \/ \E u \in Users : StartCreateTransaction(1, u, E2EPlan, hist.created)
    \/ CtStep(1)
    \/ AllIdle /\ \E o \in DOMAIN gateway, g \in {GwPending, GwSettlement} :
                      GatewayChange(o, g)
    \/ \E o \in DOMAIN gateway : StartHandleWebhook(1, WebhookPayload(o, <<>>))
    \/ ReconStep(1)

SpecE2E == InitE2E /\ [][NextE2E]_vars

\* The calls of CheckAndIncrementUsage answered while the user held an
\* active Subscription, as positions in the log.
CallsWhileSubscribed == {k \in 1..Len(log) : log[k].hadActive}

\* C17: while the user has no Subscription every CheckAndIncrementUsage(user,
\* resume) returns NoActiveSubscription; when HandleWebhook has moved the
\* Transaction for the plan with maxResumes = 1 to success on the gateway's
\* settlement, the user holds an active Subscription for that plan; the first
\* call after that returns Ok and every later call of the same month
\* returns QuotaExceeded.
C17_PurchaseThenQuota ==
    /\ PlanCatalog[E2EPlan].maxResumes = Some(1)
    /\ \A k \in 1..Len(log) :
          ((\A i \in 1..Len(subs) : subs[i].user # log[k].user)
               \/ ~log[k].hadActive)
              => log[k].result = "no_active_subscription"
    /\ \A p \in Procs :
          (MovedToSuccess(p) /\ procs[p].op = "HandleWebhook") =>
              /\ gateway[procs[p].order] = GwSettlement
              /\ \E i \in ActiveRows(txs[procs[p].txid].user, now) :
                     subs[i].plan = E2EPlan
    /\ CallsWhileSubscribed # {} =>
          LET first == CHOOSE k \in CallsWhileSubscribed :
                           \A j \in CallsWhileSubscribed : k <= j
          IN  /\ log[first].result = "ok"
              /\ \A k \in CallsWhileSubscribed :
                     (k > first /\ log[k].month = log[first].month)
                         => log[k].result = "quota_exceeded"

\* The scenario has run in full: a call denied for want of a subscription, a
\* settled payment, a call admitted and a call of the same month denied for
\* quota.
C17_Witness ==
    \E k1, k2, k3 \in 1..Len(log) :
        /\ k1 < k2 /\ k2 < k3
        /\ log[k1].result = "no_active_subscription"
        /\ log[k2].result = "ok"
        /\ log[k3].result = "quota_exceeded"
        /\ log[k2].month = log[k3].month
        /\ \E i \in 1..Len(txs) :
              /\ txs[i].user = log[k2].user
              /\ txs[i].status = "success" /\ txs[i].plan = E2EPlan

----------------------------------------------------------------------------
(* Reconciliation with failing calls: requests of user u1, one at a time,   *)
(* where every store statement and gateway call of a reconciliation may     *)
(* fail as long as the store holds fewer than MaxSubs subscriptions.        *)

MayFail(ok) == ok \/ Len(subs) < MaxSubs

ReconStepOrFail(p) ==
    \E ok \in BOOLEAN :
        /\ MayFail(ok)
        /\ \/ ReconFind(p, ok)
           \/ ReconQuery(p, ok)
           \/ CsFindPlan(p, ok)
           \/ CsFindActive(p, ok)
           \/ CsCancel(p, ok)
           \/ CsCreate(p, ok)
           \/ ReconUpdate(p, ok)

NextRetry ==
    \/ TickIdle
    \/ AllIdle /\ \E o \in DOMAIN gateway, g \in {GwPending, GwSettlement, GwDeny} :
                      GatewayChange(o, g)
    \/ \E pl \in PlanIds : StartCreateTransaction(1, "u1", pl, hist.created)
    \/ CtStep(1)
    \/ \E o \in DOMAIN gateway : StartHandleWebhook(1, WebhookPayload(o, <<>>))
    \/ \E o \in DOMAIN gateway : StartCheckTransactionStatus(1, o)
    \/ ReconStepOrFail(1)
    \/ Return(1)

SpecRetry == InitRecon /\ [][NextRetry]_vars

\* C21: whatever calls failed before, a payment has at most one Subscription,
\* and a Transaction stored as success has exactly the one it points to: a
\* reconciliation that follows one whose Subscription insert succeeded and
\* whose Transaction update failed creates no second Subscription.
C21_RetryCreatesNoSecondSubscription ==
    \A i \in 1..Len(txs) :
        /\ Cardinality(SubsForOrder(txs[i].orderId)) <= 1
        /\ txs[i].status = "success" =>
               /\ txs[i].subscriptionId # Nil
               /\ SubsForOrder(txs[i].orderId) = {Deref(txs[i].subscriptionId)}

----------------------------------------------------------------------------
(* The HTTP endpoints of TransactionHandler: GET /transactions/:id,         *)
(* GET /transactions/:id/status and POST /transactions/webhook.  A          *)
(* transaction id is the row's position in txs.                             *)

\* The ids a caller may ask for: those of the stored rows and one more.
TxIds == 1..(Len(txs) + 1)

\* transactionService.GetByID(userID, id): the error it returns ("ok" for nil).
GetByIDNoOwnerCheck(u, id) ==
    IF id \notin 1..Len(txs) THEN "transaction_not_found" ELSE "ok"
GetByID(u, id) ==
    IF id \notin 1..Len(txs) THEN "transaction_not_found"
    ELSE IF txs[id].user # u THEN "transaction_not_found"
    ELSE "ok"

\* TransactionHandler.GetTransaction for the authenticated user u.
StartGetTransaction(p, u, id) ==
    /\ procs[p].op = "idle"
    /\ procs' = [procs EXCEPT ![p] =
            [Idle EXCEPT !.op = "GetTransaction", !.pc = "get_by_id",
                         !.user = u, !.args = <<id>>]]
    /\ UNCHANGED <<now, subs, txs, usage, gateway, log, hist>>

\* TransactionHandler.CheckTransactionStatus for the authenticated user u.
StartPollStatus(p, u, id) ==
    /\ procs[p].op = "idle"
    /\ procs' = [procs EXCEPT ![p] =
            [Idle EXCEPT !.op = "PollStatus", !.pc = "get_by_id",
                         !.user = u, !.args = <<id>>]]
    /\ UNCHANGED <<now, subs, txs, usage, gateway, log, hist>>

\* The handlers' call of transactionService.GetByID.  GetTransaction ends
\* with the row; the status poll goes on to
\* transactionService.CheckTransactionStatus(transaction.OrderID).
HandlerGetByID(p, ok) ==
    LET r == procs[p]
        id == r.args[1]
        err == IF ok THEN GetByID(r.user, id) ELSE "error"
    IN  /\ r.op \in {"GetTransaction", "PollStatus"} /\ r.pc = "get_by_id"
        /\ IF err # "ok" THEN Finish(p, err)
           ELSE IF r.op = "GetTransaction"
           THEN procs' = [procs EXCEPT ![p].pc = "done", ![p].result = "ok",
                              ![p].txid = id, ![p].tx = txs[id]]
           ELSE procs' = [procs EXCEPT ![p].op = "CheckTransactionStatus",
                              ![p].pc = "find", ![p].order = txs[id].orderId]
        /\ UNCHANGED <<now, subs, txs, usage, gateway, log, hist>>

\* The HTTP status a handler answers with, given the service's error.
HandlerStatusErrorsAs500(op, err) ==
    IF err = "invalid_signature" THEN "401"
    ELSE IF err = "missing_order_id" THEN "400"
    ELSE IF err = "ok" THEN "200"
    ELSE IF err = "transaction_not_found" THEN "404"
    ELSE "500"
HandlerStatus(op, err) ==
    IF op = "HandleWebhook"
    THEN IF err = "invalid_signature" THEN "401"
         ELSE IF err = "missing_order_id" THEN "400"
         ELSE "200"
    ELSE IF op \in {"GetTransaction", "PollStatus"}
    THEN IF err = "transaction_not_found" THEN "404"
         ELSE IF err = "ok" THEN "200" ELSE "500"
    ELSE IF op = "CreateTransaction"
    THEN IF err = "ok" THEN "201"
         ELSE IF err \in {"plan_not_available", "active_subscription_exists"}
         THEN "400" ELSE "500"
    ELSE IF err = "ok" THEN "200" ELSE "500"

\* The handler writes its response.
Answer(p) ==
    /\ procs[p].pc = "done"
    /\ procs' = [procs EXCEPT ![p].pc = "answered",
                              ![p].ret = HandlerStatus(procs[p].op,
                                                       procs[p].result)]
    /\ UNCHANGED <<now, subs, txs, usage, gateway, log, hist>>

\* The response is sent; the goroutine ends.
EndRequest(p) ==
    /\ procs[p].pc = "answered"
    /\ procs' = [procs EXCEPT ![p] = Idle]
    /\ hist' = NoteDelivery(procs[p])
    /\ UNCHANGED <<now, subs, txs, usage, gateway, log>>

\* Two users, each with a pending Transaction; either asks for any id, one
\* request at a time, and every store statement and gateway call succeeds.
NextOwner ==
    \/ AllIdle /\ \E o \in DOMAIN gateway, g \in {GwPending, GwSettlement, GwDeny} :
                      GatewayChange(o, g)
    \/ \E u \in Users, id \in TxIds : StartGetTransaction(1, u, id)
    \/ \E u \in Users, id \in TxIds : StartPollStatus(1, u, id)
    \/ HandlerGetByID(1, TRUE)
    \/ ReconStep(1)
    \/ Answer(1)
    \/ EndRequest(1)

SpecOwner == InitTwin /\ [][NextOwner]_vars

\* The request of process p came through GetTransaction or the status poll.
ByTransactionId(p) ==
    /\ procs[p].op \in {"GetTransaction", "PollStatus", "CheckTransactionStatus"}
    /\ procs[p].args # <<>>

\* The id the caller of p asked for names no row, or a row of another user.
Missing(p) == procs[p].args[1] \notin 1..Len(txs)
Foreign(p) ==
    /\ procs[p].args[1] \in 1..Len(txs)
    /\ txs[procs[p].args[1]].user # procs[p].user

\* C22: GetTransaction and the status poll answer a caller who asks for
\* another user's transaction exactly as one who asks for an id that does not
\* exist (TransactionNotFound, 404, no row returned), the poll never reaches
\* CheckTransactionStatus for such a caller, and no step taken for such a
\* caller changes the store or the gateway.
C22_ForeignLooksMissing ==
    /\ [](\A p \in Procs :
            (ByTransactionId(p) /\ procs[p].pc # "get_by_id"
                 /\ (Missing(p) \/ Foreign(p))) =>
                /\ procs[p].op # "CheckTransactionStatus"
                /\ procs[p].pc \in {"done", "answered"}
                /\ procs[p].result = "transaction_not_found"
                /\ procs[p].tx = NoTx /\ procs[p].order = <<>>
                /\ procs[p].effects = 0
                /\ procs[p].pc = "answered" => procs[p].ret = "404")
    /\ [][(\E p \in Procs : ByTransactionId(p) /\ (Missing(p) \/ Foreign(p)))
             => UNCHANGED <<subs, txs, usage, gateway>>]_vars

\* A user has polled the status of another user's pending Transaction, which
\* the gateway reports as settled, and has been answered 404.
C22_Witness ==
    \E p \in Procs :
        /\ procs[p].op = "PollStatus" /\ Foreign(p)
        /\ procs[p].pc = "answered" /\ procs[p].ret = "404"
        /\ txs[procs[p].args[1]].status = "pending"
        /\ gateway[txs[procs[p].args[1]].orderId] = GwSettlement

----------------------------------------------------------------------------
(* The webhook endpoint with failing calls: notifications about the stored  *)
(* orders, about an order the store does not know and without an order id,  *)
(* with every kind of signature.                                            *)

UnknownOrder == <<"order-of-another-shop">>

NotifiedOrders == DOMAIN gateway \cup {UnknownOrder, <<>>}

NextHook ==
    \/ AllIdle /\ \E o \in DOMAIN gateway, g \in {GwPending, GwSettlement, GwDeny} :
                      GatewayChange(o, g)
    \/ \E pl \in PlanIds : StartCreateTransaction(1, "u1", pl, hist.created)
    \/ CtStep(1)
    \/ \E o \in NotifiedOrders :
          \E sig \in Signatures(o) :
             StartHandleWebhook(1, Notification(o, "settlement", "accept", sig))
    \/ ReconStepOrFail(1)
    \/ Answer(1)
    \/ EndRequest(1)

SpecHook == InitRecon /\ [][NextHook]_vars

\* The webhook call of process p has returned.
WebhookReturned(p) ==
    procs[p].op = "HandleWebhook" /\ procs[p].pc \in {"done", "answered"}

\* C23: the webhook endpoint answers 401 exactly when HandleWebhook returned
\* InvalidSignature and 200 when it returned TransactionNotFound or an
\* internal error; HandleWebhook returns TransactionNotFound only for an
\* order id the store does not hold, and for such an order id it returns
\* nothing else unless the signature is rejected or the lookup itself fails.
C23_WebhookAcknowledges ==
    \A p \in Procs :
        LET r == procs[p]
        IN  /\ (r.op = "HandleWebhook" /\ r.pc = "answered") =>
                  /\ r.ret = "401" <=> r.result = "invalid_signature"
                  /\ r.result \in {"transaction_not_found", "error"}
                        => r.ret = "200"
            /\ WebhookReturned(p) =>
                  /\ r.result = "transaction_not_found"
                        => (r.order # <<>> /\ FindByOrderID(r.order) = 0)
                  /\ (r.order # <<>> /\ FindByOrderID(r.order) = 0)
                        => r.result \in {"transaction_not_found",
                                         "invalid_signature", "error"}

\* The endpoint has acknowledged a notification about an unknown order with
\* 200.
C23_Witness ==
    \E p \in Procs :
        /\ procs[p].op = "HandleWebhook" /\ procs[p].pc = "answered"
        /\ procs[p].order = UnknownOrder
        /\ procs[p].result = "transaction_not_found"
        /\ procs[p].ret = "200"

\* The endpoint has acknowledged a notification whose processing failed on
\* an internal error with 200.
C23_WitnessInternalError ==
    \E p \in Procs :
        /\ procs[p].op = "HandleWebhook" /\ procs[p].pc = "answered"
        /\ procs[p].result = "error" /\ procs[p].ret = "200"

----------------------------------------------------------------------------
(* The AI features: resumeService.Create, interviewService.Create and       *)
(* atsCheckService.AnalyzeFromFile.  Each calls CheckAndIncrementUsage,     *)
(* then the AI client (with a fallback when it fails), then stores the      *)
(* result; hist.artifacts holds the rows stored.                            *)

\* Entry of the three services.  AnalyzeFromFile alone returns
\* ErrAIClientUnavailable before the quota call when there is no AI client.
StartFeature(p, u, f, client) ==
    /\ procs[p].op = "idle"
    /\ Len(log) + Cardinality(Running("CheckAndIncrementUsage")) < MaxCalls
    /\ procs' = [procs EXCEPT ![p] =
            IF f = "ats_check" /\ ~client
            THEN [Idle EXCEPT !.op = "Feature", !.pc = "done",
                              !.user = u, !.feature = f,
                              !.args = <<client>>,
                              !.before = CountOf(u, f, now),
                              !.result = "ai_client_unavailable"]
            ELSE [Idle EXCEPT !.op = "CheckAndIncrementUsage",
                              !.pc = "find_active",
                              !.user = u, !.feature = f,
                              !.args = <<client>>,
                              !.hadActive = HasActive(u, now),
                              !.hadPlan = ActivePlan(u, now),
                              !.before = CountOf(u, f, now)]]
    /\ UNCHANGED <<now, subs, txs, usage, gateway, log, hist>>

\* CheckAndIncrementUsage has returned to the service: its error is returned
\* to the caller, otherwise the service goes on to the AI call.
FeatureAfterQuota(p) ==
    /\ procs[p].op = "CheckAndIncrementUsage" /\ procs[p].pc = "done"
    /\ procs[p].args # <<>>
    /\ procs' = [procs EXCEPT ![p].op = "Feature",
                     ![p].pc = IF procs[p].result = "ok" THEN "ai" ELSE "done"]
    /\ UNCHANGED <<now, subs, txs, usage, gateway, log, hist>>

\* The aiStatus of the response.  Without a client convertToProfessional
\* returns the content as it is with no error, generateQuestions returns an
\* error; with a client the status tells whether the call failed.
AiStatus(f, client, ok) ==
    IF ~client
    THEN IF f = "resume" THEN "success" ELSE "skipped_no_ai_client"
    ELSE IF ok THEN "success"
    ELSE IF f = "resume" THEN "failed_using_original" ELSE "failed"

\* convertToProfessional, generateQuestions, analyzeFile: on an error the
\* service goes on with a fallback.
FeatureAi(p, ok) ==
    LET r == procs[p]
    IN  /\ r.op = "Feature" /\ r.pc = "ai"
        /\ procs' = [procs EXCEPT ![p].pc = "persist",
                         ![p].ret = AiStatus(r.feature, r.args[1], ok)]
        /\ UNCHANGED <<now, subs, txs, usage, gateway, log, hist>>

\* resumeRepo.Create, interviewRepo.Create, atsCheckRepo.Create.
FeaturePersist(p, ok) ==
    LET r == procs[p]
    IN  /\ r.op = "Feature" /\ r.pc = "persist"
        /\ IF ok
           THEN /\ hist' = [hist EXCEPT !.artifacts =
                               Append(@, [user |-> r.user, feature |-> r.feature,
                                          aiStatus |-> r.ret])]
                /\ Finish(p, "ok")
           ELSE /\ hist' = hist
                /\ Finish(p, "error")
        /\ UNCHANGED <<now, subs, txs, usage, gateway, log>>

FeatureReturn(p) == procs[p].op = "Feature" /\ Return(p)

\* One request at a time of user u1, who holds a subscription, all within
\* one day; the AI call and the insert of the result may fail.
NextFeature ==
    \/ \E f \in Features, client \in BOOLEAN : StartFeature(1, "u1", f, client)
    \/ CaiFindActive(1)
    \/ CaiGetUsage(1)
    \/ CaiInsertUsage(1)
    \/ CaiGetUsageAgain(1)
    \/ CaiIncrement(1)
    \/ FeatureAfterQuota(1)
    \/ \E ok \in BOOLEAN : FeatureAi(1, ok)
    \/ \E ok \in BOOLEAN : FeaturePersist(1, ok)
    \/ FeatureReturn(1)

SpecFeature == InitQuota /\ [][NextFeature]_vars

\* The service call of process p has passed its quota call.
PastQuota(p) ==
    procs[p].op = "Feature" /\ procs[p].result # "ai_client_unavailable"
    /\ (procs[p].pc \in {"ai", "persist"} \/ procs[p].ret # "")

\* C24: when a service reaches its AI call the usage count of the month is
\* one above what it was when the request came in, it is still so when the
\* request ends, whether the AI call or the insert of the result failed or
\* not, and no step ever lowers a usage count or removes a usage row.
C24_PayForAttempt ==
    /\ [](\A p \in Procs :
            PastQuota(p) =>
                CountOf(procs[p].user, procs[p].feature, now)
                    = procs[p].before + 1)
    /\ [][/\ Len(usage') >= Len(usage)
          /\ \A i \in 1..Len(usage) : usage'[i].count >= usage[i].count
          /\ (\E p \in Procs : procs[p].op = "Feature") => usage' = usage]_vars

\* The AI call has failed, the insert of the fallback result has failed too,
\* and the usage unit is spent.
C24_Witness ==
    \E p \in Procs :
        /\ PastQuota(p) /\ procs[p].pc = "done"
        /\ procs[p].ret \in {"failed", "failed_using_original"}
        /\ procs[p].result = "error"
        /\ hist.artifacts = <<>>
        /\ CountOf(procs[p].user, procs[p].feature, now) = procs[p].before + 1

----------------------------------------------------------------------------
(* Webhook against poll: user u1's order is reconciled by HandleWebhook and *)
(* user u2's by CheckTransactionStatus, from stores that agree up to the    *)
(* names of user and order and the raw payload kept for audit (which        *)
(* neither call reads), with the gateway reporting the same for both.       *)

\* What the store holds for user u, without names and without the payload.
ReconView(u) ==
    [WorldView(u) EXCEPT
        !.transactions = { [t EXCEPT !.midtransResponse = Nil] : t \in @ }]

\* The gateway reports status g for both orders.
GatewayChangeBoth(g) ==
    /\ AllIdle
    /\ hist.gwChanges < MaxGwChanges
    /\ \E o \in DOMAIN gateway : gateway[o] # g
    /\ gateway' = [o \in DOMAIN gateway |-> g]
    /\ hist' = [hist EXCEPT !.gwChanges = @ + 1]
    /\ UNCHANGED <<now, subs, txs, usage, procs, log>>

NextMirror ==
    \/ \E g \in {GwPending, GwSettlement, GwCaptureAccept, GwCaptureChallenge,
                 GwDeny, GwCancel, GwExpire, GwRefund, GwAuthorize} :
          GatewayChangeBoth(g)
    \/ /\ procs[2].op = "idle"
       /\ ReconView("u1") = ReconView("u2")
       /\ \E n \in PassingNotifications(OrderOfUser("u1")) :
             StartHandleWebhook(1, n)
    \/ /\ procs[1].op = "HandleWebhook"
       /\ StartCheckTransactionStatus(2, OrderOfUser("u2"))
    \/ \E p \in {1, 2} : ReconStep(p)
    \/ \E p \in {1, 2} :
          /\ \A q \in {1, 2} : procs[q].pc \in {"done", "idle"}
          /\ Return(p)

SpecMirror == InitTwin /\ [][NextMirror]_vars

\* What the claim compares: the Transaction's status, subscription, paidAt
\* (set or not) and gateway fields, and the user's Subscriptions.
ReconOutcome(u) ==
    [transactions |->
        { [status |-> t.status, subscriptionId |-> t.subscriptionId,
           paid |-> (t.paidAt # Nil), transactionId |-> t.transactionId,
           paymentType |-> t.paymentType,
           transactionStatus |-> t.transactionStatus,
           fraudStatus |-> t.fraudStatus] :
          t \in WorldView(u).transactions },
     subscriptions |-> WorldView(u).subscriptions]

\* C25: a HandleWebhook call past its signature gate and a
\* CheckTransactionStatus call that start from the same store state and get
\* the same gateway answer end with the same result, the same Transaction
\* status, subscriptionId, paidAt set or not and gateway fields, and the same
\* Subscriptions.
C25_PollEqualsWebhook ==
    (/\ procs[1].op = "HandleWebhook" /\ procs[1].pc = "done"
     /\ procs[2].op = "CheckTransactionStatus" /\ procs[2].pc = "done")
    => /\ procs[1].result = procs[2].result
       /\ ReconOutcome("u1") = ReconOutcome("u2")

\* Both calls have ended for a settled payment and each has created a
\* Subscription and canceled the one its user held.
C25_Witness ==
    /\ procs[1].op = "HandleWebhook" /\ procs[1].pc = "done"
    /\ procs[2].op = "CheckTransactionStatus" /\ procs[2].pc = "done"
    /\ procs[1].effects = 4 /\ procs[2].effects = 4
    /\ gateway[procs[1].order] = GwSettlement
    /\ \E t \in ReconOutcome("u2").transactions :
          t.status = "success" /\ t.subscriptionId # Nil /\ t.paid

----------------------------------------------------------------------------
(* Convergence.  The requests of SpecRetry within one day, with fairness:   *)
(* every order keeps being reconciled (by webhook or poll), a request that  *)
(* has started goes on, and a store statement or gateway call that is tried *)
(* again and again succeeds in the end.                                     *)

NextConverge ==
    \/ AllIdle /\ \E o \in DOMAIN gateway, g \in {GwPending, GwSettlement, GwDeny} :
                      GatewayChange(o, g)
    \/ \E pl \in PlanIds : StartCreateTransaction(1, "u1", pl, hist.created)
    \/ CtStep(1)
    \/ \E o \in DOMAIN gateway : StartHandleWebhook(1, WebhookPayload(o, <<>>))
    \/ \E o \in DOMAIN gateway : StartCheckTransactionStatus(1, o)
    \/ ReconStepOrFail(1)
    \/ Return(1)

\* The order ids CreateTransaction can make for u1 on day 0.
DayOrders ==
    { OrderID(pl, "u1", 0, ms) : pl \in PlanIds, ms \in 0..(MaxTx - 1) }

\* A reconciliation of order o starts.
Reconcile(o) ==
    /\ o \in DOMAIN gateway
    /\ \/ StartHandleWebhook(1, WebhookPayload(o, <<>>))
       \/ StartCheckTransactionStatus(1, o)

ConvergeFairness ==
    /\ \A o \in DayOrders : SF_vars(Reconcile(o))
    /\ WF_vars(CtStep(1))
    /\ WF_vars(Return(1))
    /\ SF_vars(ReconFind(1, TRUE))
    /\ SF_vars(ReconQuery(1, TRUE))
    /\ SF_vars(CsFindPlan(1, TRUE))
    /\ SF_vars(CsFindActive(1, TRUE))
    /\ SF_vars(CsCancel(1, TRUE))
    /\ SF_vars(CsCreate(1, TRUE))
    /\ SF_vars(ReconUpdate(1, TRUE))

SpecConverge == InitRecon /\ [][NextConverge]_vars /\ ConvergeFairness

\* The gateway reports settlement for the stored order o.
ReportedSettled(o) ==
    /\ o \in DOMAIN gateway /\ gateway[o] = GwSettlement
    /\ FindByOrderID(o) # 0

\* The Transaction of order o is stored as success with its subscription.
StoredPaid(o) ==
    /\ FindByOrderID(o) # 0
    /\ txs[FindByOrderID(o)].status = "success"
    /\ txs[FindByOrderID(o)].subscriptionId # Nil

\* The Transaction of order o is stored as failed.
StoredFailed(o) ==
    FindByOrderID(o) # 0 /\ txs[FindByOrderID(o)].status = "failed"

----------------------------------------------------------------------------
(* Order ids.  The store holds one Transaction, created by u1 on day 0 in   *)
(* millisecond 0; u1, u2 and a user whose id starts with the same eight     *)
(* characters as u1's then call CreateTransaction, in that millisecond or   *)
(* another.                                                                 *)

\* A user whose uuid shares its first 8 characters with u1's.
PrefixTwinUser == "u1b"

InitOrderIds ==
    /\ now = 0
    /\ subs = <<>>
    /\ \E pl \in PlanIds :
         /\ txs = << NewTransaction("u1", pl, OrderID(pl, "u1", 0, 0),
                                    OrderID(pl, "u1", 0, 0), 0) >>
         /\ gateway = (OrderID(pl, "u1", 0, 0) :> GwNone)
         /\ hist = [NoHist EXCEPT !.sessions =
                       (OrderID(pl, "u1", 0, 0) :>
                           SnapRequest(pl, OrderID(pl, "u1", 0, 0)))]
    /\ usage = <<>>
    /\ procs = [p \in Procs |-> Idle]
    /\ log = <<>>

NextOrderIds ==
    \/ TickIdle
    \/ \E u \in Users \cup {PrefixTwinUser}, pl \in PlanIds, ms \in 0..1 :
          StartCreateTransaction(1, u, pl, ms)
    \/ CtStep(1)
    \/ Return(1)

SpecOrderIds == InitOrderIds /\ [][NextOrderIds]_vars

\* C27: the order id a CreateTransaction call has made is the order id of no
\* stored Transaction and of no other call, also when the call comes in the
\* millisecond of an earlier one by the same user for the same plan or by a
\* user whose id shares its first 8 characters; so any two Transactions
\* have distinct order ids and every call gets one of its own.
C27_OrderIdsDistinct ==
    /\ \A i, j \in 1..Len(txs) : i # j => txs[i].orderId # txs[j].orderId
    /\ \A p \in Procs :
          (procs[p].op = "CreateTransaction" /\ procs[p].pc = "snap") =>
              /\ FindByOrderID(procs[p].order) = 0
              /\ procs[p].order \notin DOMAIN gateway
              /\ \A q \in Procs \ {p} : procs[q].order # procs[p].order

\* Calls that differ from every stored Transaction in plan, in the first 8
\* characters of the user id or in the millisecond make a fresh order id.
C27_DistinctWhenPartsDiffer ==
    \A p \in Procs :
        (procs[p].op = "CreateTransaction" /\ procs[p].pc = "snap") =>
            \A i \in 1..Len(txs) :
                (\/ txs[i].plan # procs[p].plan
                 \/ Prefix8(txs[i].user) # Prefix8(procs[p].user)
                 \/ txs[i].createdAt # now
                 \/ txs[i].orderId[5] # procs[p].ms)
                    => txs[i].orderId # procs[p].order

----------------------------------------------------------------------------
(* The subscription of a Transaction.                                       *)

\* C28: a stored Transaction has a subscriptionId only with status success,
\* the step that sets it is the one that moves the Transaction from a
\* status other than success to success, and once set it is never changed
\* or cleared, by later or by concurrent reconciliations.
C28_SubscriptionIdSetOnce ==
    /\ [](\A i \in 1..Len(txs) :
             txs[i].subscriptionId # Nil => txs[i].status = "success")
    /\ [][\A i \in 1..Len(txs) :
             /\ txs[i].subscriptionId # Nil
                   => txs'[i].subscriptionId = txs[i].subscriptionId
             /\ (txs[i].subscriptionId = Nil /\ txs'[i].subscriptionId # Nil)
                   => (txs[i].status # "success" /\ txs'[i].status = "success")
          ]_vars

----------------------------------------------------------------------------
(* Supersession with a failing insert: requests of user u1, one at a time   *)
(* and within one day, purchases and feature calls mixed.  Every statement  *)
(* succeeds but subscriptionRepo.Create in createSubscription, which may    *)
(* fail.                                                                    *)

NextFailClosed ==
    \/ AllIdle /\ \E o \in DOMAIN gateway, g \in {GwPending, GwSettlement} :
                      GatewayChange(o, g)
    \/ \E pl \in PlanIds : StartCreateTransaction(1, "u1", pl, hist.created)
    \/ CtStep(1)
    \/ \E o \in DOMAIN gateway : StartHandleWebhook(1, WebhookPayload(o, <<>>))
    \/ \E o \in DOMAIN gateway : StartCheckTransactionStatus(1, o)
    \/ ReconFind(1, TRUE)
    \/ ReconQuery(1, TRUE)
    \/ CsFindPlan(1, TRUE)
    \/ CsFindActive(1, TRUE)
    \/ CsCancel(1, TRUE)
    \/ \E ok \in BOOLEAN : CsCreate(1, ok)
    \/ ReconUpdate(1, TRUE)
    \/ \E f \in Features : StartCheckAndIncrementUsage(1, "u1", f)
    \/ CaiStep(1)

SpecFailClosed == InitRecon /\ [][NextFailClosed]_vars

\* The reconciliation of p has ended in createSubscription: it found an
\* active Subscription and the insert failed, the gateway query and the
\* canceling update being all it has done.
InsertFailedAfterCancel(p) ==
    /\ Reconciling(p) /\ procs[p].pc = "done" /\ procs[p].result = "error"
    /\ procs[p].sub # 0
    /\ procs[p].effects = 2
    /\ procs[p].tx.subscriptionId = Nil

\* User u has a canceled Subscription and no active one.
LeftWithout(u) ==
    /\ \E i \in 1..Len(subs) : subs[i].user = u /\ subs[i].status = "canceled"
    /\ ActiveRows(u, now) = {}

\* C29: when createSubscription has canceled the user's active Subscription
\* and the insert of the new one fails, the user is left with no active
\* Subscription and the Transaction is not stored as success; a
\* CheckAndIncrementUsage call of a user left so returns NoActiveSubscription.
C29_SupersessionFailsClosed ==
    /\ [](\A p \in Procs :
             InsertFailedAfterCancel(p) =>
                 /\ ActiveRows(procs[p].tx.user, now) = {}
                 /\ LeftWithout(procs[p].tx.user)
                 /\ txs[procs[p].txid].status # "success")
    /\ [][\A p \in Procs :
             ( /\ procs[p].op = "CheckAndIncrementUsage"
               /\ procs[p].pc = "find_active"
               /\ LeftWithout(procs[p].user)
               /\ procs'[p].pc # "find_active" )
             => ( /\ procs'[p].pc = "done"
                  /\ procs'[p].result = "no_active_subscription"
                  /\ usage' = usage )
          ]_vars

\* A feature call has been refused with NoActiveSubscription while the user
\* was left without a Subscription by a failed insert, the Transaction still
\* pending.
C29_Witness ==
    /\ LeftWithout("u1")
    /\ \E i \in 1..Len(txs) : txs[i].status = "pending" /\ GwSettlement = gateway[txs[i].orderId]
    /\ procs[1].op = "CheckAndIncrementUsage" /\ procs[1].pc = "done"
    /\ procs[1].result = "no_active_subscription"
    /\ procs[1].hadActive = FALSE

----------------------------------------------------------------------------
(* Stored cancel and expired are not final.                                 *)

\* The call of p has read a Transaction stored as cancel or expired.
ReadCanceledOrExpired(p) ==
    /\ Reconciling(p)
    /\ procs[p].txid # 0
    /\ procs[p].readStatus \in {"cancel", "expired"}

\* C30: a HandleWebhook or CheckTransactionStatus call that reads the stored
\* status cancel or expired does not end at the final-state test but queries
\* the gateway; when the gateway then reports a paid status the call creates
\* the Subscription and stores the Transaction as success, and when it
\* reports any other status the call stores what the status maps to.
C30_CancelExpiredRequeried ==
    /\ [](\A p \in Procs :
             ReadCanceledOrExpired(p) =>
                 \/ procs[p].pc = "query"
                 \/ procs[p].effects >= 1)
    /\ [][\A p \in Procs :
             ( /\ ReadCanceledOrExpired(p)
               /\ procs[p].pc = "query"
               /\ procs'[p].pc # "query" )
             => LET g == gateway[procs[p].order]
                    newStatus == mapMidtransStatus(g.transaction_status,
                                                   g.fraud_status)
                IN  /\ procs'[p].tx.status = newStatus
                    /\ procs'[p].pc = IF newStatus = "success" THEN "cs_plan"
                                      ELSE "update"
          ]_vars
    /\ [](\A p \in Procs :
             ( ReadCanceledOrExpired(p) /\ procs[p].pc = "done"
               /\ procs[p].result = "ok" )
             => /\ txs[procs[p].txid].status = procs[p].tx.status
                /\ procs[p].tx.status = "success"
                     => /\ txs[procs[p].txid].subscriptionId # Nil
                        /\ SubsForOrder(procs[p].order)
                             = {Deref(txs[procs[p].txid].subscriptionId)})

\* A Transaction that was stored as cancel or expired is stored as success
\* and has a Subscription.
C30_Witness ==
    \E p \in Procs :
        /\ ReadCanceledOrExpired(p)
        /\ procs[p].pc = "done" /\ procs[p].result = "ok"
        /\ txs[procs[p].txid].status = "success"
        /\ txs[procs[p].txid].subscriptionId # Nil
        /\ SubsForOrder(procs[p].order) # {}

----------------------------------------------------------------------------
(* One usage row per key.                                                   *)

\* The keys of the usage table.
UsageKeys ==
    {<<usage[i].user, usage[i].feature, usage[i].periodMonth>> :
        i \in 1..Len(usage)}

\* The call of p is in FindOrCreate, past the lookup that missed and past
\* its insert.
MissedAndInserted(p) ==
    /\ procs[p].op = "CheckAndIncrementUsage"
    /\ procs[p].pc = "get_usage_again"

\* C31: the usage table holds at most one row per (user, feature,
\* periodMonth); concurrent FindOrCreate calls for one key that all missed
\* the first lookup leave one row, and the closing lookup of each returns
\* that row.
C31_OneUsageRowPerKey ==
    /\ [](\A k \in UsageKeys : Cardinality(UsageRows(k[1], k[2], k[3])) = 1)
    /\ [](\A p \in Procs :
             MissedAndInserted(p) =>
                 Cardinality(UsageRows(procs[p].user, procs[p].feature,
                                       procs[p].period)) = 1)
    /\ [][\A p \in Procs :
             (MissedAndInserted(p) /\ procs'[p].pc # "get_usage_again")
             => /\ procs'[p].result # "error"
                /\ procs'[p].usageId # 0
                /\ UsageRows(procs[p].user, procs[p].feature, procs[p].period)
                      = {procs'[p].usageId}
          ]_vars

\* Two calls for one key have both missed and both run the insert; one of
\* them has got the row back and the other is about to look it up.
C31_Witness ==
    \E p, q \in Procs :
        /\ p # q
        /\ MissedAndInserted(p)
        /\ procs[q].op = "CheckAndIncrementUsage" /\ procs[q].pc = "increment"
        /\ procs[q].wrote /\ ~procs[p].wrote
        /\ procs[p].user = procs[q].user /\ procs[p].feature = procs[q].feature
        /\ procs[p].period = procs[q].period
        /\ UsageRows(procs[p].user, procs[p].feature, procs[p].period)
              = {procs[q].usageId}

----------------------------------------------------------------------------
(* quotaService.GetUserQuota(userID).  The field quota of the request holds *)
(* the Count of each row fetched so far, Nil for a FindOrCreate that        *)
(* returned an error, and at the end the UserQuota returned; the field args *)
(* is history: for each feature, whether FindOrCreate returned a row.       *)

\* The order in which GetUserQuota fetches the usage of the features.
FeatureOrder == <<"resume", "ats_check", "interview">>

\* The request arrives.
StartGetUserQuota(p, u) ==
    /\ procs[p].op = "idle"
    /\ procs' = [procs EXCEPT ![p] =
            [Idle EXCEPT !.op = "GetUserQuota", !.pc = "find_active",
                         !.user = u]]
    /\ UNCHANGED <<now, subs, txs, usage, gateway, log, hist>>

\* subscriptionRepo.FindActiveByUserID; sql.ErrNoRows -> ErrNoActiveSubscription,
\* another error is returned as it is.  Then periodMonth from time.Now().
GuqFindActive(p, ok) ==
    LET r == procs[p]
        s == FindActiveByUserID(r.user, now)
    IN  /\ r.op = "GetUserQuota" /\ r.pc = "find_active"
        /\ IF ~ok THEN Finish(p, "error")
           ELSE IF s = 0 THEN Finish(p, "no_active_subscription")
           ELSE procs' = [procs EXCEPT ![p].pc = "get_usage",
                                       ![p].sub = s,
                                       ![p].plan = subs[s].plan,
                                       ![p].period = PeriodMonth(now),
                                       ![p].feature = FeatureOrder[1]]
        /\ UNCHANGED <<now, subs, txs, usage, gateway, log, hist>>

\* if x != nil { quota.Used = x.Count }, over the three fetched rows, and the
\* limits of the plan, 0 where the pointer is nil.
UserQuotaUsedIsLimit(plan, fetched) ==
    [planName |-> plan,
     maxResumes |-> MaxAllowed(plan, "resume"),
     maxATSChecks |-> MaxAllowed(plan, "ats_check"),
     maxInterviews |-> MaxAllowed(plan, "interview"),
     usedResumes |-> MaxAllowed(plan, "resume"),
     usedATSChecks |-> MaxAllowed(plan, "ats_check"),
     usedInterviews |-> MaxAllowed(plan, "interview")]
UserQuota(plan, fetched) ==
    LET used(k) == IF fetched[k] # Nil THEN Deref(fetched[k]) ELSE 0
    IN  [planName |-> plan,
         maxResumes |-> MaxAllowed(plan, "resume"),
         maxATSChecks |-> MaxAllowed(plan, "ats_check"),
         maxInterviews |-> MaxAllowed(plan, "interview"),
         usedResumes |-> used(1),
         usedATSChecks |-> used(2),
         usedInterviews |-> used(3)]

\* FindOrCreate has returned row (Nil with an error, which the caller drops):
\* on to the next feature, or build the UserQuota and return it.
GuqFetched(p, row) ==
    LET r == procs[p]
        fetched == Append(r.quota, IF row = Nil THEN Nil
                                   ELSE Some(usage[Deref(row)].count))
        got == Append(r.args, row # Nil)
    IN  IF Len(fetched) < Len(FeatureOrder)
        THEN procs' = [procs EXCEPT ![p].quota = fetched, ![p].args = got,
                                    ![p].feature = FeatureOrder[Len(fetched) + 1],
                                    ![p].pc = "get_usage"]
        ELSE procs' = [procs EXCEPT ![p].quota = UserQuota(r.plan, fetched),
                                    ![p].args = got,
                                    ![p].pc = "done", ![p].result = "ok"]

\* usageRepo.FindOrCreate, first GetCurrentMonthUsage.
GuqGetUsage(p, ok) ==
    LET r == procs[p]
        id == GetCurrentMonthUsage(r.user, r.feature, now)
    IN  /\ r.op = "GetUserQuota" /\ r.pc = "get_usage"
        /\ IF ~ok THEN GuqFetched(p, Nil)
           ELSE IF id = 0 THEN procs' = [procs EXCEPT ![p].pc = "insert_usage"]
           ELSE GuqFetched(p, Some(id))
        /\ UNCHANGED <<now, subs, txs, usage, gateway, log, hist>>

\* usageRepo.FindOrCreate, the INSERT ... ON CONFLICT DO NOTHING.
GuqInsertUsage(p, ok) ==
    LET r == procs[p]
    IN  /\ r.op = "GetUserQuota" /\ r.pc = "insert_usage"
        /\ IF ~ok
           THEN usage' = usage /\ GuqFetched(p, Nil)
           ELSE /\ usage' = InsertUsage(r.user, r.feature, r.period)
                /\ procs' = [procs EXCEPT ![p].pc = "get_usage_again"]
        /\ UNCHANGED <<now, subs, txs, gateway, log, hist>>

\* usageRepo.FindOrCreate, the closing GetCurrentMonthUsage.
GuqGetUsageAgain(p, ok) ==
    LET r == procs[p]
        id == GetCurrentMonthUsage(r.user, r.feature, now)
    IN  /\ r.op = "GetUserQuota" /\ r.pc = "get_usage_again"
        /\ IF ~ok \/ id = 0 THEN GuqFetched(p, Nil)
           ELSE GuqFetched(p, Some(id))
        /\ UNCHANGED <<now, subs, txs, usage, gateway, log, hist>>

GuqStep(p, ok) ==
    \/ GuqFindActive(p, ok)
    \/ GuqGetUsage(p, ok)
    \/ GuqInsertUsage(p, ok)
    \/ GuqGetUsageAgain(p, ok)

----------------------------------------------------------------------------
(* Everything that touches a user's usage: feature calls of u1 for one      *)
(* feature, quota reports for u1 running beside them, and u1 buying a plan  *)
(* whose payment settles, so that the subscription the calls were counted   *)
(* under is canceled and a new one activated.  Every statement succeeds.    *)

NextUsageOps ==
    \/ TickIdle
    \/ StartCheckAndIncrementUsage(1, "u1", "resume")
    \/ CaiStep(1)
    \/ StartGetUserQuota(2, "u1")
    \/ GuqStep(2, TRUE)
    \/ Return(2)
    \/ \E pl \in PlanIds : StartCreateTransaction(1, "u1", pl, hist.created)
    \/ CtStep(1)
    \/ AllIdle /\ \E o \in DOMAIN gateway : GatewayChange(o, GwSettlement)
    \/ \E o \in DOMAIN gateway : StartHandleWebhook(1, WebhookPayload(o, <<>>))
    \/ ReconStep(1)

SpecUsageOps == InitQuota /\ [][NextUsageOps]_vars

\* C32: no step removes a usage row, changes its key or lowers its count.
C32_CountNeverDecreases ==
    [][/\ Len(usage') >= Len(usage)
       /\ \A i \in 1..Len(usage) :
             /\ usage'[i].user = usage[i].user
             /\ usage'[i].feature = usage[i].feature
             /\ usage'[i].periodMonth = usage[i].periodMonth
             /\ usage'[i].count >= usage[i].count
      ]_vars

\* Within the first month u1 has used the feature, the subscription it was
\* used under is canceled and another plan's is active, and a quota report
\* made under the new subscription shows the use.
C32_Witness ==
    /\ now < DaysPerMonth
    /\ \E i \in 1..Len(subs) : subs[i].user = "u1" /\ subs[i].status = "canceled"
    /\ \E i \in 1..Len(subs) :
          /\ subs[i].user = "u1" /\ subs[i].status = "active"
          /\ subs[i].forOrder # <<>>
          /\ procs[2].plan = subs[i].plan
          /\ subs[i].plan # subs[1].plan
    /\ procs[2].op = "GetUserQuota" /\ procs[2].pc = "done"
    /\ procs[2].result = "ok"
    /\ procs[2].quota.usedResumes >= 1
    /\ CountOf("u1", "resume", now) = procs[2].quota.usedResumes

----------------------------------------------------------------------------
(* Quota reports: requests of u1 and u2, one at a time and within one day;  *)
(* feature calls of u1 and quota reports, in which every statement may      *)
(* fail.                                                                    *)

NextUserQuota ==
    \/ \E f \in Features : StartCheckAndIncrementUsage(1, "u1", f)
    \/ CaiStep(1)
    \/ \E u \in Users : StartGetUserQuota(1, u)
    \/ \E ok \in BOOLEAN : GuqStep(1, ok)

SpecUserQuota == InitQuota /\ [][NextUserQuota]_vars

\* C33: a step of GetUserQuota keeps every usage row as it is and adds at
\* most a row with count 0 for the user and the current month; the UserQuota
\* returned holds the limits of the plan of the active subscription and, for
\* each feature, the stored count when its row was fetched and 0 when
\* fetching it failed, whatever happened to the other features.
C33_QuotaReportReadsOnly ==
    /\ [][\A p \in Procs :
             procs[p].op = "GetUserQuota" =>
                 /\ SubSeq(usage', 1, Len(usage)) = usage
                 /\ Len(usage') <= Len(usage) + 1
                 /\ \A i \in (Len(usage) + 1)..Len(usage') :
                       /\ usage'[i].count = 0
                       /\ usage'[i].user = procs[p].user
                       /\ usage'[i].periodMonth = PeriodMonth(now)
          ]_vars
    /\ [](\A p \in Procs :
             (procs[p].op = "GetUserQuota" /\ procs[p].pc = "done"
              /\ procs[p].result = "ok")
             => LET q == procs[p].quota
                    u == procs[p].user
                    pl == subs[FindActiveByUserID(u, now)].plan
                    used(k) == IF procs[p].args[k]
                               THEN CountOf(u, FeatureOrder[k], now) ELSE 0
                IN  /\ FindActiveByUserID(u, now) # 0
                    /\ q.planName = pl
                    /\ q.maxResumes = MaxAllowed(pl, "resume")
                    /\ q.maxATSChecks = MaxAllowed(pl, "ats_check")
                    /\ q.maxInterviews = MaxAllowed(pl, "interview")
                    /\ q.usedResumes = used(1)
                    /\ q.usedATSChecks = used(2)
                    /\ q.usedInterviews = used(3))

\* A report has been returned in which the fetch of a used feature failed
\* and shows 0, beside a feature that shows its use.
C33_Witness ==
    \E p \in Procs :
        /\ procs[p].op = "GetUserQuota" /\ procs[p].pc = "done"
        /\ procs[p].result = "ok"
        /\ procs[p].args = <<TRUE, TRUE, FALSE>>
        /\ procs[p].quota.usedResumes >= 1
        /\ procs[p].quota.usedInterviews = 0
        /\ CountOf(procs[p].user, "interview", now) >= 1

----------------------------------------------------------------------------
(* The Subscription of a successful Transaction.                            *)

\* The days plan pl runs: its durationDays, 30 when it names none.
PlanDays(pl) ==
    IF PlanCatalog[pl].durationDays = Nil THEN 30
    ELSE Deref(PlanCatalog[pl].durationDays)

\* C34: the row a reconciliation inserts into subscriptions is active, bears
\* the user and the plan of the Transaction, starts at the time of the
\* insert and ends PlanDays(plan) days later; a Transaction stored as
\* success points to such a row, started when the Transaction was paid.
C34_SubscriptionOfTransaction ==
    /\ [][Len(subs') > Len(subs) =>
            \E p \in Procs :
               LET s == subs'[Len(subs')]
               IN  /\ Reconciling(p) /\ procs[p].pc = "cs_create"
                   /\ Len(subs') = Len(subs) + 1
                   /\ s.status = "active"
                   /\ s.user = procs[p].tx.user
                   /\ s.plan = procs[p].tx.plan
                   /\ s.startDate = now
                   /\ s.endDate = s.startDate + PlanDays(procs[p].tx.plan)
         ]_vars
    /\ [](\A i \in 1..Len(txs) :
             (txs[i].status = "success" /\ txs[i].subscriptionId # Nil) =>
                 LET s == subs[Deref(txs[i].subscriptionId)]
                 IN  /\ s.user = txs[i].user
                     /\ s.plan = txs[i].plan
                     /\ Some(s.startDate) = txs[i].paidAt
                     /\ s.endDate = s.startDate + PlanDays(txs[i].plan))

\* A Transaction for the plan without a duration, created on day 0 and paid
\* later, is success and its Subscription runs 30 days from the payment.
C34_Witness ==
    \E i \in 1..Len(txs) :
        /\ txs[i].status = "success" /\ txs[i].subscriptionId # Nil
        /\ PlanCatalog[txs[i].plan].durationDays = Nil
        /\ txs[i].createdAt = 0
        /\ LET s == subs[Deref(txs[i].subscriptionId)]
           IN  /\ s.status = "active"
               /\ s.startDate > 0
               /\ s.endDate = s.startDate + 30

----------------------------------------------------------------------------
(* The reading operations of transactionService.                            *)

\* GetByOrderID(orderID)
StartGetByOrderID(p, o) ==
    /\ procs[p].op = "idle"
    /\ procs' = [procs EXCEPT ![p] =
            [Idle EXCEPT !.op = "GetByOrderID", !.pc = "find_by_order",
                         !.order = o]]
    /\ UNCHANGED <<now, subs, txs, usage, gateway, log, hist>>

\* transactionRepo.FindByOrderID; sql.ErrNoRows -> ErrTransactionNotFound.
SvcGetByOrderID(p, ok) ==
    LET r == procs[p]
        id == FindByOrderID(r.order)
    IN  /\ r.op = "GetByOrderID" /\ r.pc = "find_by_order"
        /\ IF ~ok THEN Finish(p, "error")
           ELSE IF id = 0 THEN Finish(p, "transaction_not_found")
           ELSE procs' = [procs EXCEPT ![p].pc = "done", ![p].result = "ok",
                              ![p].txid = id, ![p].tx = txs[id]]
        /\ UNCHANGED <<now, subs, txs, usage, gateway, log, hist>>

\* GetUserTransactions(userID, page, limit): page < 1 becomes 1, limit < 1
\* becomes 10, limit > 100 becomes 100; args holds page, limit and, after
\* CountByUserID, total.
StartGetUserTransactions(p, u, page, limit) ==
    /\ procs[p].op = "idle"
    /\ procs' = [procs EXCEPT ![p] =
            [Idle EXCEPT !.op = "GetUserTransactions", !.pc = "count",
                         !.user = u,
                         !.args = << IF page < 1 THEN 1 ELSE page,
                                     IF limit < 1 THEN 10
                                     ELSE IF limit > 100 THEN 100 ELSE limit >>]]
    /\ UNCHANGED <<now, subs, txs, usage, gateway, log, hist>>

\* The rows of user u.
RowsOfUser(u) == {i \in 1..Len(txs) : txs[i].user = u}

\* transactionRepo.CountByUserID
GutCount(p, ok) ==
    LET r == procs[p]
    IN  /\ r.op = "GetUserTransactions" /\ r.pc = "count"
        /\ IF ~ok THEN Finish(p, "failed_to_count_transactions")
           ELSE procs' = [procs EXCEPT ![p].pc = "find_by_user",
                              ![p].args = Append(@, Cardinality(RowsOfUser(r.user)))]
        /\ UNCHANGED <<now, subs, txs, usage, gateway, log, hist>>

\* ORDER BY created_at DESC: the rows of S, newest first (of two rows of one
\* instant the later inserted first).
RECURSIVE NewestFirst(_)
NewestFirst(S) ==
    IF S = {} THEN <<>>
    ELSE LET i == CHOOSE x \in S :
                     \A y \in S : \/ txs[y].createdAt < txs[x].createdAt
                                  \/ (txs[y].createdAt = txs[x].createdAt /\ y <= x)
         IN  <<txs[i]>> \o NewestFirst(S \ {i})

\* transactionRepo.FindByUserID(userID, limit, offset) with
\* offset = (page - 1) * limit, and the pagination of the answer.
GutFind(p, ok) ==
    LET r == procs[p]
        page == r.args[1]
        limit == r.args[2]
        total == r.args[3]
        offset == (page - 1) * limit
        all == NewestFirst(RowsOfUser(r.user))
        last == IF offset + limit < Len(all) THEN offset + limit ELSE Len(all)
        totalPages == (total \div limit) + (IF total % limit > 0 THEN 1 ELSE 0)
    IN  /\ r.op = "GetUserTransactions" /\ r.pc = "find_by_user"
        /\ IF ~ok THEN Finish(p, "failed_to_fetch_transactions")
           ELSE procs' = [procs EXCEPT ![p].pc = "done", ![p].result = "ok",
                    ![p].quota = [transactions |-> SubSeq(all, offset + 1, last),
                                  page |-> page, limit |-> limit,
                                  total |-> total, totalPages |-> totalPages]]
        /\ UNCHANGED <<now, subs, txs, usage, gateway, log, hist>>

\* One stored Transaction of u1 from day 0; requests one at a time that
\* reconcile, create a Transaction or read.  Every statement succeeds.
NextFrame ==
    \/ TickIdle
    \/ AllIdle /\ \E o \in DOMAIN gateway, g \in {GwPending, GwSettlement, GwDeny} :
                      GatewayChange(o, g)
    \/ \E o \in DOMAIN gateway : StartHandleWebhook(1, WebhookPayload(o, <<>>))
    \/ \E o \in DOMAIN gateway : StartCheckTransactionStatus(1, o)
    \/ ReconStep(1)
    \/ \E u \in Users, pl \in PlanIds : StartCreateTransaction(1, u, pl, 1)
    \/ CtStep(1)
    \/ \E u \in Users, id \in TxIds : StartGetTransaction(1, u, id)
    \/ HandlerGetByID(1, TRUE)
    \/ \E o \in DOMAIN gateway : StartGetByOrderID(1, o)
    \/ SvcGetByOrderID(1, TRUE)
    \/ \E u \in Users, page \in 0..2, limit \in 0..1 :
          StartGetUserTransactions(1, u, page, limit)
    \/ GutCount(1, TRUE)
    \/ GutFind(1, TRUE)
    \/ Return(1)

SpecFrame == InitOrderIds /\ [][NextFrame]_vars

\* C35: no step removes a Transaction or changes its userId, planId, orderId
\* or grossAmount, and a step that changes a stored Transaction is the
\* transactionRepo.Update of a HandleWebhook or CheckTransactionStatus call
\* for that Transaction; so CreateTransaction, GetByID, GetByOrderID and
\* GetUserTransactions change none.
C35_TransactionFrame ==
    [][/\ Len(txs') >= Len(txs)
       /\ \A i \in 1..Len(txs) :
             /\ txs'[i].user = txs[i].user
             /\ txs'[i].plan = txs[i].plan
             /\ txs'[i].orderId = txs[i].orderId
             /\ txs'[i].grossAmount = txs[i].grossAmount
             /\ txs'[i].createdAt = txs[i].createdAt
             /\ txs'[i] # txs[i] =>
                   \E p \in Procs :
                      /\ procs[p].op \in {"HandleWebhook", "CheckTransactionStatus"}
                      /\ procs[p].pc = "update" /\ procs'[p].pc = "done"
                      /\ procs[p].txid = i
      ]_vars

\* The first Transaction has been reconciled to success, a second one has
\* been created since, and a listing returned both.
C35_Witness ==
    /\ Len(txs) = 2
    /\ txs[1].status = "success" /\ txs[1].updatedAt > txs[1].createdAt
    /\ txs[2].user = txs[1].user
    /\ procs[1].op = "GetUserTransactions" /\ procs[1].pc = "done"
    /\ procs[1].result = "ok"
    /\ Len(procs[1].quota.transactions) = 2
    /\ procs[1].quota.transactions[1] = txs[2]

----------------------------------------------------------------------------
(* Unsigned against signed notifications, as two runs side by side: the     *)
(* world of u1 gets a notification whose signature_key is the empty string  *)
(* or is absent, the world of u2 the same notification with the gateway's   *)
(* signature.  Both worlds start alike and the gateway reports the same     *)
(* status for both orders.                                                  *)

\* The value of a key the payload does not hold.
JsonAbsent == [t |-> "absent", v |-> <<>>]

UnsignedNotifications(o) ==
    { Notification(o, st[1], st[2], sig) :
        st \in NotifiedStatuses, sig \in {JsonString(<<>>), JsonAbsent} }

\* The notification n as the gateway signs it for order o.
SignedFor(o, n) ==
    Notification(o, AsString(n.transaction_status), AsString(n.fraud_status),
                 JsonString(GatewaySignature(o)))

NextSandbox ==
    \/ \E g \in {GwPending, GwSettlement, GwDeny, GwExpire} : GatewayChangeBoth(g)
    \/ /\ procs[2].op = "idle"
       /\ WorldView("u1") = WorldView("u2")
       /\ \E n \in UnsignedNotifications(OrderOfUser("u1")) :
             StartHandleWebhook(1, n)
    \/ /\ procs[1].op = "HandleWebhook"
       /\ StartHandleWebhook(2, SignedFor(OrderOfUser("u2"), procs[1].payload))
    \/ \E p \in {1, 2} : ReconStep(p)
    \/ \E p \in {1, 2} :
          /\ \A q \in {1, 2} : procs[q].pc \in {"done", "idle"}
          /\ Return(p)

SpecSandbox == InitTwin /\ [][NextSandbox]_vars

\* The store of user u with, in the stored copy of the notification, only
\* the fields that do not name the order or sign it.
UnsignedView(u) ==
    [WorldView(u) EXCEPT
        !.transactions =
            { [t EXCEPT !.midtransResponse =
                  IF @ = Nil THEN Nil
                  ELSE Some([transaction_status |-> Deref(@).transaction_status,
                             fraud_status |-> Deref(@).fraud_status,
                             status_code |-> Deref(@).status_code,
                             gross_amount |-> Deref(@).gross_amount])] :
              t \in @ }]

\* C36: a HandleWebhook call whose signature_key is empty or absent and one
\* with the gateway's signature, started from the same store state with the
\* same gateway status, end with the same result and the same store state;
\* the unsigned one is not refused.
C36_UnsignedEqualsSigned ==
    /\ \A p \in Procs :
          (procs[p].op = "HandleWebhook"
           /\ AsString(procs[p].payload.signature_key) = <<>>)
          => procs[p].result # "invalid_signature"
    /\ (/\ procs[1].op = "HandleWebhook" /\ procs[1].pc = "done"
        /\ procs[2].op = "HandleWebhook" /\ procs[2].pc = "done")
       => /\ procs[1].result = procs[2].result
          /\ UnsignedView("u1") = UnsignedView("u2")

\* Both calls have ended for a settled payment, the one without a
\* signature_key and the signed one, and each world has its Subscription.
C36_Witness ==
    /\ procs[1].op = "HandleWebhook" /\ procs[1].pc = "done"
    /\ procs[1].payload.signature_key = JsonAbsent
    /\ procs[2].op = "HandleWebhook" /\ procs[2].pc = "done"
    /\ AsString(procs[2].payload.signature_key) # <<>>
    /\ procs[1].result = "ok"
    /\ \A u \in Users :
          /\ txs[FindByOrderID(OrderOfUser(u))].status = "success"
          /\ SubsForOrder(OrderOfUser(u)) # {}

----------------------------------------------------------------------------
(* A failing gateway query: requests of u1, one at a time, feature calls    *)
(* among them; midtransClient.CheckTransaction may fail, every other        *)
(* statement succeeds.                                                      *)

NextQueryFails ==
    \/ TickIdle
    \/ AllIdle /\ \E o \in DOMAIN gateway, g \in {GwPending, GwSettlement} :
                      GatewayChange(o, g)
    \/ \E pl \in PlanIds : StartCreateTransaction(1, "u1", pl, hist.created)
    \/ CtStep(1)
    \/ \E o \in DOMAIN gateway : StartHandleWebhook(1, WebhookPayload(o, <<>>))
    \/ \E o \in DOMAIN gateway : StartCheckTransactionStatus(1, o)
    \/ ReconFind(1, TRUE)
    \/ \E ok \in BOOLEAN : ReconQuery(1, ok)
    \/ CsFindPlan(1, TRUE)
    \/ CsFindActive(1, TRUE)
    \/ CsCancel(1, TRUE)
    \/ CsCreate(1, TRUE)
    \/ ReconUpdate(1, TRUE)
    \/ StartCheckAndIncrementUsage(1, "u1", "resume")
    \/ CaiStep(1)

SpecQueryFails == InitRecon /\ [][NextQueryFails]_vars

\* The call of p has ended at the gateway query.
EndedAtQuery(p) ==
    /\ Reconciling(p) /\ procs[p].pc = "done"
    /\ procs[p].txid # 0
    /\ ~IsFinalState(procs[p].readStatus)
    /\ procs[p].effects = 0

\* C37: the step in which the gateway query of a HandleWebhook or
\* CheckTransactionStatus call fails ends the call with an error and changes
\* no Transaction, Subscription or Usage row; the call has written nothing
\* and the stored Transaction is the one it read, so that a later call finds
\* what this one found.
C37_QueryFailureChangesNothing ==
    /\ [][\A p \in Procs :
             (Reconciling(p) /\ procs[p].pc = "query" /\ procs'[p].pc = "done")
             => /\ procs'[p].result = "error"
                /\ UNCHANGED <<txs, subs, usage, gateway>>
          ]_vars
    /\ [](\A p \in Procs :
             EndedAtQuery(p) =>
                 /\ procs[p].result = "error"
                 /\ txs[procs[p].txid] = procs[p].tx
                 /\ txs[procs[p].txid].status = procs[p].readStatus
                 /\ SubsForOrder(procs[p].order) = {})

\* The query about a settled payment has failed after the user had used the
\* feature: the Transaction is still pending and without a Subscription.
C37_Witness ==
    \E p \in Procs :
        /\ EndedAtQuery(p)
        /\ gateway[procs[p].order] = GwSettlement
        /\ txs[procs[p].txid].status = "pending"
        /\ txs[procs[p].txid].subscriptionId = Nil
        /\ \E i \in 1..Len(usage) : usage[i].count >= 1

----------------------------------------------------------------------------
(* Status, subscription and payment time of a stored Transaction.           *)

\* C38: in every state, with reconciliations running side by side, a stored
\* Transaction has a subscriptionId exactly when its status is success, and
\* a Transaction stored as success has paidAt set.
C38_SubscriptionIffSuccess ==
    \A i \in 1..Len(txs) :
        /\ (txs[i].subscriptionId # Nil) <=> (txs[i].status = "success")
        /\ txs[i].status = "success" => txs[i].paidAt # Nil

\* Two reconciliations of one Transaction read it as pending; one has stored
\* success with the Subscription and the payment time while the other is
\* about to write.
C38_Witness ==
    \E i \in 1..Len(txs), p, q \in Procs :
        /\ p # q
        /\ Reconciling(p) /\ procs[p].txid = i /\ procs[p].readStatus = "pending"
        /\ Reconciling(q) /\ procs[q].txid = i /\ procs[q].readStatus = "pending"
        /\ procs[p].pc = "done" /\ procs[q].pc = "update"
        /\ txs[i].status = "success"
        /\ txs[i].subscriptionId # Nil /\ txs[i].paidAt # Nil

----------------------------------------------------------------------------
(* Feature calls of two subscribed users side by side: u1 for two features, *)
(* u2 for one, over two months.  The store holds a pending Transaction of   *)
(* u1.                                                                      *)

InitShared ==
    /\ now = 0
    /\ \E pl \in PlanIds :
         /\ subs = << NewSubscription("u1", "pro", 0, <<>>),
                      NewSubscription("u2", "basic", 0, <<>>) >>
         /\ txs = << NewTransaction("u1", pl, OrderID(pl, "u1", 0, 0),
                                    OrderID(pl, "u1", 0, 0), 0) >>
         /\ gateway = (OrderID(pl, "u1", 0, 0) :> GwNone)
         /\ hist = [NoHist EXCEPT !.created = 1, !.sessions =
                       (OrderID(pl, "u1", 0, 0) :>
                           SnapRequest(pl, OrderID(pl, "u1", 0, 0)))]
    /\ usage = <<>>
    /\ procs = [p \in Procs |-> Idle]
    /\ log = <<>>

NextShared ==
    \/ TickIdle
    \/ \E f \in {"resume", "ats_check"} : StartCheckAndIncrementUsage(1, "u1", f)
    \/ StartCheckAndIncrementUsage(2, "u2", "resume")
    \/ \E p \in Procs : CaiStep(p)

SpecShared == InitShared /\ [][NextShared]_vars

\* C39: a step of a CheckAndIncrementUsage(user, feature) call leaves every
\* Subscription and Transaction as it is, removes no usage row, leaves every
\* usage row of another user, another feature or another month as it is and
\* adds no row but that of (user, feature, current month).
C39_QuotaCallFrame ==
    [][\A p \in Procs :
          (procs[p].op = "CheckAndIncrementUsage" /\ procs'[p] # procs[p])
          => LET r == procs[p]
                 own(row) == /\ row.user = r.user
                             /\ row.feature = r.feature
                             /\ row.periodMonth = PeriodMonth(now)
             IN  /\ subs' = subs
                 /\ txs' = txs
                 /\ gateway' = gateway
                 /\ Len(usage') >= Len(usage)
                 /\ \A i \in 1..Len(usage) :
                       \/ usage'[i] = usage[i]
                       \/ /\ own(usage[i])
                          /\ usage'[i] = [usage[i] EXCEPT !.count = @ + 1]
                 /\ \A i \in (Len(usage) + 1)..Len(usage') : own(usage'[i])
      ]_vars

\* u1 has been admitted in the second month while the rows of its first
\* month, of its other feature and of u2 hold their counts.
C39_Witness ==
    /\ \E k \in 1..Len(log) :
          /\ log[k].user = "u1" /\ log[k].feature = "resume"
          /\ log[k].month = 1 /\ log[k].result = "ok"
    /\ \E i \in 1..Len(usage) :
          /\ usage[i].user = "u1" /\ usage[i].feature = "resume"
          /\ usage[i].periodMonth = 0 /\ usage[i].count = 1
    /\ \E i \in 1..Len(usage) :
          /\ usage[i].user = "u1" /\ usage[i].feature = "ats_check"
          /\ usage[i].count = 1
    /\ \E i \in 1..Len(usage) :
          /\ usage[i].user = "u2" /\ usage[i].count = 1

----------------------------------------------------------------------------
(* The month rolling over inside a call: feature calls of u1, one at a      *)
(* time, with the clock moving between any two statements.                  *)

\* Time passes, also while a request is running.
Tick ==
    /\ now + TickDays <= MaxNow
    /\ now' = now + TickDays
    /\ UNCHANGED <<subs, txs, usage, gateway, procs, log, hist>>

NextRollover ==
    \/ Tick
    \/ \E f \in Features : StartCheckAndIncrementUsage(1, "u1", f)
    \/ CaiStep(1)

SpecRollover == InitQuota /\ [][NextRollover]_vars

\* C40: the row FindOrCreate hands to CheckAndIncrementUsage is the row of
\* the periodMonth the caller computed, and FindOrCreate does not end with
\* sql.ErrNoRows after its insert, also when the month changes between the
\* caller's time.Now() and those of the lookups.
C40_RowOfCallersMonth ==
    \A p \in Procs :
        procs[p].op = "CheckAndIncrementUsage" =>
            /\ procs[p].usageId # 0 =>
                  usage[procs[p].usageId].periodMonth = procs[p].period
            /\ procs[p].result # "error"

====
